---- MODULE Spec2Model ----
(***************************************************************************)
(* Model of enclaver: the supervisor's console services                    *)
(* (src/enclaver/src/bin/odyn/console.rs) driven by the supervisor's run() *)
(* (src/enclaver/src/bin/odyn/main.rs), the runner on the host             *)
(* (src/enclaver/src/run.rs, src/enclaver/src/bin/enclaver-run/main.rs)    *)
(* the egress proxies (src/enclaver/src/proxy/egress_http.rs), the egress  *)
(* policy (src/enclaver/src/policy), the supervisor's launch() with its    *)
(* services and reaper (src/enclaver/src/bin/odyn), the ingress bridge     *)
(* (src/enclaver/src/proxy/ingress.rs), the KMS proxy                      *)
(* (src/enclaver/src/proxy/kms.rs) and the attestation API                 *)
(* (src/enclaver/src/api.rs, src/enclaver/src/http_util.rs).               *)
(*                                                                         *)
(* Spec        the application log: ByteLog::append, ByteLog::read, the    *)
(*             LogReader::stream tasks and the log's WatchSet.             *)
(* FairLog     Spec with the fairness of the log's stream tasks.           *)
(* SpecAppend  Spec where append is also given more than the log holds.    *)
(* SpecStatus  the status cell: run(), AppStatus::exited / fatal, the      *)
(*             AppStatus::stream tasks and the status WatchSet.            *)
(* FairStatus  SpecStatus with the fairness of the tokio scheduler.        *)
(* SpecHangup  SpecStatus with subscribers that hang up.                   *)
(* SpecRun     Enclave::run and await_exit, with the supervisor of the     *)
(*             enclave it started, and the runner's exit code.             *)
(* SpecReport  the exit code as a function of what Enclave::run returned.  *)
(* SpecLogDial the runner's log stream task.                               *)
(* SpecEgress  one request to the proxy in the enclave and the host side   *)
(*             of the vsock stream it opens.                               *)
(* SpecPolicy  EgressPolicy::new on an egress section and is_host_allowed  *)
(*             on a host.                                                  *)
(* SpecPattern domain_filter's Pattern::matches on a pattern and a domain. *)
(* SpecLaunch  run() and launch() of the supervisor: the services' starts  *)
(*             and stops, the child and its reaper, the proxy environment  *)
(*             and the connections of the ingress bridge on both sides.    *)
(* FairLaunch  SpecLaunch with the fairness of the steps of launch().      *)
(* SpecKms     one request to the KMS proxy.                               *)
(* SpecApi     one request to the attestation API.                         *)
(* SpecFrame   one message through JsonTransport::send and recv.           *)
(***************************************************************************)
EXTENDS Integers, Sequences, FiniteSets, TLC

VARIABLES
    buffer,     \* ByteLog.buffer: the CircBuf (storage, read index, write index)
    head,       \* ByteLog.head: absolute index of the oldest buffered byte
    watches,    \* ByteLog.watches.watches: the Vec of senders, by reader id
    changed,    \* per log reader: its watch Receiver has an unseen change
    cursor,     \* per log reader: LogCursor.pos
    pc,         \* per log reader: position of its LogReader::stream task
    out,        \* per log reader: the bytes written to its socket so far
    total,      \* number of bytes handed to append so far (S of the claims)
    startTotal, \* per log reader: total when its cursor was created
    lastOp,     \* the most recent log operation and its argument / result
    call,       \* the most recent ByteLog call: its buffer's length, what it returned
    status,     \* AppStatusInner.status
    swatches,   \* AppStatusInner.watches.watches, by subscriber id
    schanged,   \* per status subscriber: its Receiver has an unseen change
    spc,        \* per status subscriber: position of its AppStatus::stream task
    json_str,   \* per status subscriber: the local json_str of stream()
    lines,      \* per status subscriber: the lines written to its socket
    sconn,      \* per status subscriber: its end of the connection, open or closed
    regStatus,  \* per status subscriber: the status when its watcher was added
    listening,  \* the status port is bound (AppStatus::start_serving succeeded)
    sup,        \* position of the supervisor's run()
    mutations,  \* number of assignments made to the status cell
    args,       \* Enclave: cpu_count, memory_mb, debug_mode and the manifest's proxies
    rpc,        \* position of the runner in run() / Enclave::run
    enclave_info, \* Enclave.enclave_info: "None" or "Some"
    enclave,    \* the enclave itself: "none", "running" or "terminated"
    tool,       \* the nitro-cli subcommands executed so far, in order
    tasks,      \* Enclave.tasks: the helper tasks spawned and not aborted
    teardown,   \* what Enclave::cleanup did, in order
    failed_attempts, \* await_exit's failed_attempts
    conn,       \* await_exit holds a connection to the status port
    rd,         \* number of status lines await_exit has taken from its connection
    exit_res,   \* Enclave::run's exit_res, the outcome of its select!
    run_res,    \* what Enclave::run returned
    shutdown_signal, \* SIGINT or SIGTERM has been delivered to the runner
    cancelled,  \* the CancellationToken has been cancelled
    sig_at,     \* what the runner was doing when the signal was delivered
    exit_code,  \* the exit code of the runner's process, once it has exited
    log_pc,     \* position of the runner's log stream task
    log_attempts, \* failed attempts of the log stream task to reach the log port
    log_port,   \* the supervisor's log port is bound
    request,    \* the request the proxy in the enclave is handling
    policy,     \* the EgressPolicy of the proxy in the enclave
    ppc,        \* position of the proxy in the enclave in handling the request
    response,   \* the response the proxy in the enclave made itself
    vsock_opened, \* connections opened to the host's egress port for the request
    e2h,        \* what the enclave side has written to the egress stream, in order
    h2e,        \* what the host side has written to the egress stream, in order
    erd,        \* number of items of h2e the enclave side has read
    hrd,        \* number of items of e2h the host side has read
    hpc,        \* position of the host's service_conn for the stream
    conn_req,   \* service_conn's conn_req
    target,     \* the host service_conn dialled
    sends,      \* number of ConnectResponse sends service_conn has made
    egress_spec, \* the manifest's egress section: its allow and deny lists
    built,      \* the EgressPolicy built from egress_spec
    asked,      \* the host is_host_allowed was asked about
    allowed,    \* what is_host_allowed answered
    pat_in,     \* the text of a domain pattern
    dom_in,     \* the text of a domain
    matched,    \* what Pattern::matches answered for pat_in and dom_in
    pol_pc,     \* position of the policy part: new, built, asked, matched
    conf,       \* the supervisor's command line and configuration
    lpc,        \* position of the supervisor in launch()
    events,     \* what the supervisor has started and stopped, in order
    env,        \* the environment variables of the supervisor process
    failure,    \* the step of the supervisor's start that failed
    nwaits,     \* number of waitpid calls reap has made
    last_wait,  \* what the last waitpid call gave
    rres,       \* what reap returned
    ing_pc,     \* position of EnclaveProxy::serve
    conns,      \* the connections of EnclaveProxy
    hserve,     \* position of the runner's HostProxy::serve task
    hconns,     \* the connections of HostProxy
    kms_req,    \* the request the KMS proxy was sent
    kms_pc,     \* position of KmsProxyHandler::handle
    kms_out,    \* the request the KMS proxy sent to KMS
    kms_resp,   \* the response of the KMS proxy
    api_req,    \* the request the attestation API was sent
    api_pc,     \* position of the API's connection task
    api_provided, \* what the attestation provider answered
    api_resp,   \* the response written to the API's connection
    frame_msg,  \* the message given to JsonTransport::send
    frame_pc,   \* position of the message: new, sent, len, received
    wire,       \* the packet send wrote
    recv_len,   \* recv's len
    consumed,   \* number of bytes recv has read
    received    \* what recv returned

logVars ==
    <<buffer, head, watches, changed, cursor, pc, out, total, startTotal, lastOp, call>>
statusVars ==
    <<status, swatches, schanged, spc, json_str, lines, regStatus, listening, sup, mutations>>
runVars ==
    <<args, rpc, enclave_info, enclave, tool, tasks, teardown, failed_attempts, conn, rd,
      exit_res, run_res, shutdown_signal, cancelled, sig_at, exit_code>>
dialVars == <<log_pc, log_attempts, log_port>>
peerVars == <<sconn>>
egressVars ==
    <<request, policy, ppc, response, vsock_opened, e2h, h2e, erd, hrd, hpc, conn_req,
      target, sends>>
policyVars == <<egress_spec, built, asked, allowed, pat_in, dom_in, matched, pol_pc>>
launchVars ==
    <<conf, lpc, events, env, failure, nwaits, last_wait, rres, ing_pc, conns, hserve,
      hconns>>
kmsVars == <<kms_req, kms_pc, kms_out, kms_resp>>
apiVars == <<api_req, api_pc, api_provided, api_resp>>
frameVars == <<frame_msg, frame_pc, wire, recv_len, consumed, received>>
svcVars == <<kmsVars, apiVars, frameVars>>
vars ==
    <<peerVars, logVars, statusVars, runVars, dialVars, egressVars, policyVars,
      launchVars, svcVars>>

\* what the actions of one part of the model leave alone
exceptLog == <<peerVars, statusVars, runVars, dialVars, egressVars, policyVars,
    launchVars, svcVars>>
exceptStatus == <<peerVars, logVars, runVars, dialVars, egressVars, policyVars,
    launchVars, svcVars>>
exceptRun == <<peerVars, logVars, statusVars, dialVars, egressVars, policyVars,
    launchVars, svcVars>>
exceptRunStatus == <<peerVars, logVars, dialVars, egressVars, policyVars,
    launchVars, svcVars>>
exceptDial == <<peerVars, logVars, statusVars, runVars, egressVars, policyVars,
    launchVars, svcVars>>
exceptEgress == <<peerVars, logVars, statusVars, runVars, dialVars, policyVars,
    launchVars, svcVars>>
exceptPolicy == <<peerVars, logVars, statusVars, runVars, dialVars, egressVars,
    launchVars, svcVars>>
exceptLaunch ==
    <<peerVars, logVars, statusVars, runVars, dialVars, egressVars, policyVars, svcVars>>
exceptStatusLaunch ==
    <<peerVars, logVars, runVars, dialVars, egressVars, policyVars, svcVars>>
exceptPeer ==
    <<logVars, statusVars, runVars, dialVars, egressVars, policyVars, launchVars, svcVars>>
exceptKms ==
    <<peerVars, logVars, statusVars, runVars, dialVars, egressVars, policyVars,
      launchVars, apiVars, frameVars>>
exceptApi ==
    <<peerVars, logVars, statusVars, runVars, dialVars, egressVars, policyVars,
      launchVars, kmsVars, frameVars>>
exceptFrame ==
    <<peerVars, logVars, statusVars, runVars, dialVars, egressVars, policyVars,
      launchVars, kmsVars, apiVars>>

(***************************************************************************)
(* Bounds of the model.                                                    *)
(***************************************************************************)
\* capacity of the ring, CircBuf::cap() (the program's is fixed by APP_LOG_CAPACITY)
Cap == 3
\* bytes appended in one run of the model
MaxTotal == 8
\* longest buffer handed to read (the program's is 4096, the tests' 1024)
MaxBuf == 2
\* ingress listeners in the manifest
MaxIngress == 1
\* failed attempts to reach the status port while the supervisor is starting
MaxBootAttempts == 2
\* failed attempts of the log stream task
MaxLogAttempts == 125
\* bytes spliced in each direction of an egress stream
MaxSplice == 1
\* longest allow or deny list of an egress section
MaxList == 2
\* most labels in the text of a pattern or of a domain
MaxLabels == 3

\* most turns of the reaper's loop before the child is reported
MaxWaits == 2
\* most connections of the ingress bridge
MaxConns == 1

\* longest host name or error message put in a framed message
MaxTextLen == 65516

\* exit codes from -CodeSpan to CodeSpan are reported, and the ends of i32
CodeSpan == 300

Readers == {1}
Subscribers == {1, 2}
\* the subscriber that is the runner's connection to the status port
RunnerSub == 1

Min(a, b) == IF a < b THEN a ELSE b
Max(a, b) == IF a > b THEN a ELSE b

\* The bytes of the stream are labelled by their absolute index, as the
\* incrementing bytes of test_byte_log are: n bytes starting at index start.
iota(start, n) == [i \in 1..n |-> start + i - 1]

(***************************************************************************)
(* circbuf::CircBuf as ByteLog uses it: a ring of cap()+1 slots, one of    *)
(* which stays empty, with a read and a write index.                       *)
(***************************************************************************)
BufSize == Cap + 1

CircBufNew == [data |-> [i \in 0..Cap |-> 0], read |-> 0, write |-> 0]

CircBufLen(b) == (b.write - b.read + BufSize) % BufSize

CircBufAvail(b) == Cap - CircBufLen(b)

\* advance_read fails, leaving the buffer as it is, when n exceeds len()
CircBufAdvanceRead(b, n) ==
    IF n > CircBufLen(b) THEN b ELSE [b EXCEPT !.read = (b.read + n) % BufSize]

\* write stores as much of data as fits and returns the count
CircBufWrite(b, data) ==
    LET n == Min(Len(data), CircBufAvail(b))
    IN [buf |-> [b EXCEPT !.data = [i \in 0..Cap |->
                        IF (i - b.write + BufSize) % BufSize < n
                        THEN data[((i - b.write + BufSize) % BufSize) + 1]
                        ELSE b.data[i]],
                    !.write = (b.write + n) % BufSize],
        n |-> n]

\* a mutant of get_bytes_upto_size: all the buffered bytes are handed out
CircBufGetBytesUptoSize_All(b, size) ==
    LET n == CircBufLen(b)
        first == Min(n, BufSize - b.read)
    IN <<[i \in 1..first |-> b.data[b.read + i - 1]],
         [i \in 1..(n - first) |-> b.data[i - 1]]>>

\* the (at most two) contiguous slices holding the first size buffered bytes
CircBufGetBytesUptoSize(b, size) ==
    LET n == Min(size, CircBufLen(b))
        first == Min(n, BufSize - b.read)
    IN <<[i \in 1..first |-> b.data[b.read + i - 1]],
         [i \in 1..(n - first) |-> b.data[i - 1]]>>

(***************************************************************************)
(* WatchSet                                                                *)
(***************************************************************************)
\* WatchSet::add: push a new sender
WatchSetAdd(ws, id) == Append(ws, id)

\* notify, first half: retain the senders whose receiver is still alive
WatchSetRetain(ws, isClosed) == SelectSeq(ws, LAMBDA id : ~isClosed[id])

\* a mutant of WatchSetSendTo: only the first sender is signalled
WatchSetSendTo_FirstOnly(ws) == IF ws = <<>> THEN {} ELSE {ws[1]}

\* notify, second half: the receivers that are sent ()
WatchSetSendTo(ws) == {ws[i] : i \in 1..Len(ws)}

(***************************************************************************)
(* ByteLog::append                                                         *)
(***************************************************************************)
\* a mutant of TrimCnt: one byte more than needed is dropped
TrimCnt_OneMore(avail, len) == IF avail < len THEN len - avail + 1 ELSE 0

\* a mutant of TrimCnt: one byte less than needed is dropped
TrimCnt_OneLess(avail, len) == IF avail < len THEN len - avail - 1 ELSE 0

\* a mutant of TrimCnt: the whole length is trimmed when space is short
TrimCnt_WholeLen(avail, len) == IF avail < len THEN len ELSE 0

\* trim_cnt: what append drops from the head to make room for len bytes
TrimCnt(avail, len) == IF avail < len THEN len - avail ELSE 0

\* a mutant of ShouldNotify: append never notifies
ShouldNotify_Never(data) == FALSE

\* a mutant of ShouldNotify: an append of no bytes notifies nobody
ShouldNotify_NonEmptyOnly(data) == Len(data) > 0

\* append calls watches.notify() on every call
ShouldNotify(data) == TRUE

\* the log after append(data): the buffer, the head, the value returned and
\* whether both assertions held
ByteLogAppend(buf, hd, data) ==
    LET avail == CircBufAvail(buf)
        trim_cnt == TrimCnt(avail, Len(data))
        trimmed == IF avail < Len(data) THEN CircBufAdvanceRead(buf, trim_cnt) ELSE buf
        hd1 == IF avail < Len(data) THEN hd + trim_cnt ELSE hd
        w == CircBufWrite(trimmed, data)
    IN [buffer |-> w.buf, head |-> hd1, trim_cnt |-> trim_cnt,
        asserts |-> CircBufAvail(trimmed) >= Len(data) /\ w.n = Len(data),
        trimmed |-> trimmed, has_room |-> CircBufAvail(trimmed) >= Len(data)]

(***************************************************************************)
(* ByteLog::read                                                           *)
(***************************************************************************)
\* a mutant of SnapPos: a lagging cursor is left where it is
SnapPos_NoSnap(pos, hd) == pos

\* the cursor after the snap: a cursor behind head is moved to head
SnapPos(pos, hd) == IF pos < hd THEN hd ELSE pos

\* a mutant of ReadOffset: the copy always starts at the oldest byte
ReadOffset_Zero(pos, hd) == 0

\* offset: where in the buffered bytes the copy starts
ReadOffset(pos, hd) == IF pos < hd THEN 0 ELSE pos - hd

\* a mutant of CopySlice: the skipped prefix of a slice is copied too
CopySlice_NoSkip(st, data) ==
    IF st.offset < Len(data)
    THEN [offset |-> 0, copied |-> st.copied \o data]
    ELSE [offset |-> st.offset - Len(data), copied |-> st.copied]

\* one turn of read's loop over the slices
CopySlice(st, data) ==
    IF st.offset < Len(data)
    THEN [offset |-> 0,
          copied |-> st.copied \o SubSeq(data, st.offset + 1, Len(data))]
    ELSE [offset |-> st.offset - Len(data), copied |-> st.copied]

\* read(cursor, buf) with len(buf) = buflen: the new cursor and the bytes copied
ByteLogRead(buf, hd, pos, buflen) ==
    LET offset == ReadOffset(pos, hd)
        slices == CircBufGetBytesUptoSize(buf, buflen + offset)
        st == CopySlice(CopySlice([offset |-> offset, copied |-> <<>>], slices[1]),
                        slices[2])
    IN [pos |-> SnapPos(pos, hd) + Len(st.copied), copied |-> st.copied]

(***************************************************************************)
(* The application log: the servicer appends, the stream tasks read.       *)
(***************************************************************************)
LogInit ==
    /\ buffer = CircBufNew
    /\ head = 0
    /\ watches = <<>>
    /\ changed = [r \in Readers |-> FALSE]
    /\ cursor = [r \in Readers |-> 0]
    /\ pc = [r \in Readers |-> "idle"]
    /\ out = [r \in Readers |-> <<>>]
    /\ total = 0
    /\ startTotal = [r \in Readers |-> 0]
    /\ lastOp = [op |-> "new", r |-> 0, n |-> 0]
    /\ call = [len |-> 0, ret |-> 0]

ReceiverDropped == [r \in Readers |-> pc[r] = "gone"]

\* LogServicer::run hands a chunk to ByteLog::append (the tests call append
\* directly, also with chunks longer than the servicer's)
AppendData(n) ==
    /\ lastOp.op # "panic"
    /\ total + n <= MaxTotal
    /\ LET data == iota(total, n)
           res == ByteLogAppend(buffer, head, data)
           kept == WatchSetRetain(watches, ReceiverDropped)
       IN /\ res.asserts
          /\ buffer' = res.buffer
          /\ head' = res.head
          /\ IF ShouldNotify(data)
             THEN /\ watches' = kept
                  /\ changed' = [r \in Readers |->
                                    IF r \in WatchSetSendTo(kept) THEN TRUE ELSE changed[r]]
             ELSE UNCHANGED <<watches, changed>>
    /\ total' = total + n
    /\ lastOp' = [op |-> "append", r |-> 0, n |-> n]
    /\ call' = [len |-> n, ret |-> ByteLogAppend(buffer, head, iota(total, n)).trim_cnt]
    /\ UNCHANGED <<cursor, pc, out, startTotal>>

LogAppend == \E n \in 0..Cap : AppendData(n)

\* append(data) where one of its assertions fails: the servicer's task
\* panics holding the lock, with head already moved; the Mutex is poisoned
\* and no task can use the log again
AppendPanics(n) ==
    /\ lastOp.op # "panic"
    /\ total + n <= MaxTotal
    /\ LET res == ByteLogAppend(buffer, head, iota(total, n))
       IN /\ ~res.asserts
          /\ buffer' = IF res.has_room THEN res.buffer ELSE res.trimmed
          /\ head' = res.head
          /\ lastOp' = [op |-> "panic", r |-> IF res.has_room THEN 2 ELSE 1, n |-> n]
    /\ call' = [len |-> n, ret |-> 0]
    /\ UNCHANGED <<watches, changed, cursor, pc, out, total, startTotal>>

\* LogReader::stream up to its loop: a new cursor and a new watcher
Connect(r) ==
    /\ lastOp.op # "panic"
    /\ pc[r] = "idle"
    /\ cursor' = [cursor EXCEPT ![r] = 0]
    /\ watches' = WatchSetAdd(watches, r)
    /\ changed' = [changed EXCEPT ![r] = FALSE]
    /\ startTotal' = [startTotal EXCEPT ![r] = total]
    /\ pc' = [pc EXCEPT ![r] = "write_all"]
    /\ lastOp' = [op |-> "watch", r |-> r, n |-> 0]
    /\ call' = [len |-> 0, ret |-> 0]
    /\ UNCHANGED <<buffer, head, out, total>>

\* one turn of LogReader::write_all: a read, then the write of what was read
\* (sent tells whether the socket took the bytes)
ReadWrite(r, buflen, sent) ==
    /\ lastOp.op # "panic"
    /\ pc[r] = "write_all"
    /\ LET res == ByteLogRead(buffer, head, cursor[r], buflen)
       IN /\ cursor' = [cursor EXCEPT ![r] = res.pos]
          /\ lastOp' = [op |-> "read", r |-> r, n |-> Len(res.copied)]
          /\ call' = [len |-> buflen, ret |-> Len(res.copied)]
          /\ IF Len(res.copied) = 0
             THEN /\ pc' = [pc EXCEPT ![r] = "wait"]
                  /\ out' = out
             ELSE IF sent
             THEN /\ pc' = pc
                  /\ out' = [out EXCEPT ![r] = out[r] \o res.copied]
             ELSE /\ pc' = [pc EXCEPT ![r] = "gone"]
                  /\ out' = out
    /\ UNCHANGED <<buffer, head, watches, changed, total, startTotal>>

Read(r) == \E buflen \in 1..MaxBuf : ReadWrite(r, buflen, TRUE)

\* the peer hung up: write_all fails and stream returns, dropping its receiver
ReadHangup(r) == \E buflen \in 1..MaxBuf : ReadWrite(r, buflen, FALSE) /\ pc'[r] = "gone"

\* w.changed().await returns
Changed(r) ==
    /\ lastOp.op # "panic"
    /\ pc[r] = "wait"
    /\ changed[r]
    /\ changed' = [changed EXCEPT ![r] = FALSE]
    /\ pc' = [pc EXCEPT ![r] = "write_all"]
    /\ lastOp' = [op |-> "changed", r |-> r, n |-> 0]
    /\ call' = [len |-> 0, ret |-> 0]
    /\ UNCHANGED <<buffer, head, watches, cursor, out, total, startTotal>>

\* a stream task that comes to self.log.lock().unwrap() after append has
\* panicked: the Mutex is poisoned, the task panics and drops its receiver
LockPoisoned(r) ==
    /\ lastOp.op = "panic"
    /\ pc[r] = "write_all" \/ (pc[r] = "wait" /\ changed[r])
    /\ pc' = [pc EXCEPT ![r] = "gone"]
    /\ UNCHANGED <<buffer, head, watches, changed, cursor, out, total, startTotal, lastOp,
                   call>>

(***************************************************************************)
(* EntrypointStatus and its JSON line                                      *)
(***************************************************************************)
ExitCodes == {0, 2}
Signals == {"SIGTERM", "SIGKILL"}
QuotedError == "exec \"app\" failed"
Errors == {"no manifest", QuotedError}

\* launcher::ExitStatus
ExitStatus ==
    {[kind |-> "Exited", code |-> c] : c \in ExitCodes}
        \cup {[kind |-> "Signaled", sig |-> g] : g \in Signals}

Running == [kind |-> "Running"]
Exited(exit_status) == [kind |-> "Exited", exit_status |-> exit_status]
Fatal(err) == [kind |-> "Fatal", err |-> err]

RunningLine == "{ \"status\": \"running\" }\n"

\* a mutant of as_json: an exited entrypoint is reported as running
as_json_ExitedAsRunning(st) ==
    CASE st.kind = "Running" -> RunningLine
      [] st.kind = "Exited" -> RunningLine
      [] st.kind = "Fatal" ->
            "{ \"status\": \"fatal\", \"error\": \"" \o st.err \o "\" }\n"

\* EntrypointStatus::as_json
as_json(st) ==
    CASE st.kind = "Running" -> RunningLine
      [] st.kind = "Exited" /\ st.exit_status.kind = "Exited" ->
            "{ \"status\": \"exited\", \"code\": " \o ToString(st.exit_status.code) \o " }\n"
      [] st.kind = "Exited" /\ st.exit_status.kind = "Signaled" ->
            "{ \"status\": \"signaled\", \"signal\": \"" \o st.exit_status.sig \o "\" }\n"
      [] st.kind = "Fatal" ->
            "{ \"status\": \"fatal\", \"error\": \"" \o st.err \o "\" }\n"

(***************************************************************************)
(* The status cell: run() sets it, the stream tasks write it out.          *)
(***************************************************************************)
StatusInit ==
    /\ status = Running
    /\ swatches = <<>>
    /\ schanged = [s \in Subscribers |-> FALSE]
    /\ spc = [s \in Subscribers |-> "idle"]
    /\ json_str = [s \in Subscribers |-> ""]
    /\ lines = [s \in Subscribers |-> <<>>]
    /\ sconn = [s \in Subscribers |-> "open"]
    /\ regStatus = [s \in Subscribers |-> Running]
    /\ listening = FALSE
    /\ sup = "new"
    /\ mutations = 0

\* AppStatus::stream never returns, so no status receiver is ever dropped
StatusReceiverDropped == [s \in Subscribers |-> FALSE]

\* AppStatusInner::exited and AppStatusInner::fatal: assign, then notify
SetStatus(st) ==
    /\ status' = st
    /\ mutations' = mutations + 1
    /\ LET kept == WatchSetRetain(swatches, StatusReceiverDropped)
       IN /\ swatches' = kept
          /\ schanged' = [s \in Subscribers |->
                            IF s \in WatchSetSendTo(kept) THEN TRUE ELSE schanged[s]]

\* run(): AppStatus::new() and start_serving(STATUS_PORT); the bind may fail
SupStartServing ==
    /\ sup = "new"
    /\ \E bound \in BOOLEAN : listening' = bound
    /\ sup' = "console"
    /\ UNCHANGED <<status, swatches, schanged, spc, json_str, lines, regStatus, mutations>>

\* run(): --no-console, or AppLog::with_stdio_redirect() succeeded
SupConsoleReady ==
    /\ sup = "console"
    /\ sup' = "launch"
    /\ UNCHANGED <<status, swatches, schanged, spc, json_str, lines, regStatus,
                   listening, mutations>>

\* run(): AppLog::with_stdio_redirect()? returns the error; main exits with 1
SupRedirectFailed ==
    /\ sup = "console"
    /\ sup' = "failed"
    /\ UNCHANGED <<status, swatches, schanged, spc, json_str, lines, regStatus,
                   listening, mutations>>

\* launch(): everything before the child is spawned went well
SupSpawnChild ==
    /\ sup = "launch"
    /\ sup' = "child"
    /\ UNCHANGED <<status, swatches, schanged, spc, json_str, lines, regStatus,
                   listening, mutations>>

\* launch() returned Err (before the spawn, or start_child failed): fatal(err)
SupLaunchErr ==
    /\ sup \in {"launch", "child"}
    /\ \E err \in Errors : SetStatus(Fatal(err))
    /\ sup' = "await"
    /\ UNCHANGED <<spc, json_str, lines, regStatus, listening>>

\* launch() returned Ok(exit_status): exited(exit_status)
SupChildExited ==
    /\ sup = "child"
    /\ \E es \in ExitStatus : SetStatus(Exited(es))
    /\ sup' = "await"
    /\ UNCHANGED <<spc, json_str, lines, regStatus, listening>>

\* app_status_task.await??: the task that could not bind returns its error
SupStatusTaskErr ==
    /\ sup = "await"
    /\ ~listening
    /\ sup' = "failed"
    /\ UNCHANGED <<status, swatches, schanged, spc, json_str, lines, regStatus,
                   listening, mutations>>

ProcessAlive == sup \notin {"new", "failed"}

\* a connection is accepted; stream() adds its watcher
StreamStart(s) ==
    /\ ProcessAlive /\ listening
    /\ spc[s] = "idle"
    /\ swatches' = WatchSetAdd(swatches, s)
    /\ schanged' = [schanged EXCEPT ![s] = FALSE]
    /\ regStatus' = [regStatus EXCEPT ![s] = status]
    /\ spc' = [spc EXCEPT ![s] = "read"]
    /\ UNCHANGED <<status, json_str, lines, listening, sup, mutations>>

\* stream(): json_str = status.as_json(), under the lock
StreamReadStatus(s) ==
    /\ ProcessAlive
    /\ spc[s] = "read"
    /\ json_str' = [json_str EXCEPT ![s] = as_json(status)]
    /\ spc' = [spc EXCEPT ![s] = "write"]
    /\ UNCHANGED <<status, swatches, schanged, lines, regStatus, listening, sup, mutations>>

\* stream(): _ = sock.write_all(json_str): the line goes out if the subscriber
\* is still there; the error of a write to a closed connection is dropped
StreamWrite(s) ==
    /\ ProcessAlive
    /\ spc[s] = "write"
    /\ lines' = [lines EXCEPT ![s] = IF sconn[s] = "open"
                                     THEN Append(lines[s], json_str[s])
                                     ELSE lines[s]]
    /\ spc' = [spc EXCEPT ![s] = "wait"]
    /\ UNCHANGED <<status, swatches, schanged, json_str, regStatus, listening, sup, mutations>>

\* stream(): w.changed().await returns
StreamChanged(s) ==
    /\ ProcessAlive
    /\ spc[s] = "wait"
    /\ schanged[s]
    /\ schanged' = [schanged EXCEPT ![s] = FALSE]
    /\ spc' = [spc EXCEPT ![s] = "read"]
    /\ UNCHANGED <<status, swatches, json_str, lines, regStatus, listening, sup, mutations>>

\* the subscriber of a stream task hangs up
StreamPeerGone(s) ==
    /\ ProcessAlive
    /\ spc[s] # "idle"
    /\ sconn[s] = "open"
    /\ sconn' = [sconn EXCEPT ![s] = "closed"]

(***************************************************************************)
(* The runner on the host: enclaver-run's run() and Enclave::run           *)
(* (src/enclaver/src/bin/enclaver-run/main.rs, src/enclaver/src/run.rs).   *)
(***************************************************************************)
STATUS_VSOCK_RETRY_LIMIT == 100
DEFAULT_CPU_COUNT == 2
DEFAULT_MEMORY_MB == 4096
ENCLAVE_SIGNALED_EXIT_CODE == 107
ENCLAVE_FATAL == 108
ENCLAVER_INTERRUPTED == 109
\* ExitCode::FAILURE, what main reports for an Err
EXIT_FAILURE == 1

\* the options Enclave::new resolves from the command line and the manifest
CpuCounts == {0, 1}
MemorySizes == {63, 64}
Opts ==
    [cpu_count : CpuCounts, memory_mb : MemorySizes, debug_mode : BOOLEAN,
     egress : BOOLEAN, ingress : 0..MaxIngress]
DefaultOpts ==
    [cpu_count |-> DEFAULT_CPU_COUNT, memory_mb |-> DEFAULT_MEMORY_MB,
     debug_mode |-> FALSE, egress |-> FALSE, ingress |-> 0]

\* a mutant of to_args: the memory size is not validated
ToArgsOk_CpuOnly(cpu_count, memory_mb) == ~(cpu_count < 1)

\* RunEnclaveArgs::to_args returns Ok
ToArgsOk(cpu_count, memory_mb) == ~(cpu_count < 1) /\ ~(memory_mb < 64)

\* nix's Signal as the number the runner's EnclaveProcessStatus expects
SignalNumber(sig) == IF sig = "SIGKILL" THEN 9 ELSE 15

\* EnclaveExitStatus, and the results of await_exit and of Enclave::run
NoResult == [kind |-> "None"]
Cancelled == [kind |-> "Cancelled"]
ExitedWith(code) == [kind |-> "Exited", code |-> code]
SignaledWith(signal) == [kind |-> "Signaled", signal |-> signal]
FatalWith(error) == [kind |-> "Fatal", error |-> error]
Err(msg) == [kind |-> "Err", msg |-> msg]

(***************************************************************************)
(* The status line as the runner decodes it: LinesCodec splits at the      *)
(* newline, serde_json parses the text, serde picks the variant by the     *)
(* "status" tag and requires the variant's fields with their types.        *)
(* A JSON document is a tag with at most one more member, a number or a    *)
(* string; JsonText writes a document in the layout as_json uses, so that  *)
(* parsing a line is finding the document whose text it is.                *)
(***************************************************************************)
JsonTags == {"running", "exited", "signaled", "fatal"}
JsonKeys == {"code", "signal", "error"}
JsonNumbers == ExitCodes \cup {SignalNumber(g) : g \in Signals}
JsonStrings == Signals \cup Errors
JsonDocs ==
    {[status |-> t] : t \in JsonTags}
        \cup {[status |-> t, key |-> k, num |-> n] :
                t \in JsonTags, k \in JsonKeys, n \in JsonNumbers}
        \cup {[status |-> t, key |-> k, str |-> s] :
                t \in JsonTags, k \in JsonKeys, s \in JsonStrings}

\* a string as JSON writes it: a double quote inside is escaped
JsonEscape(s) == IF s = QuotedError THEN "exec \\\"app\\\" failed" ELSE s

JsonText(d) ==
    IF DOMAIN d = {"status"}
    THEN "{ \"status\": \"" \o d.status \o "\" }"
    ELSE "{ \"status\": \"" \o d.status \o "\", \"" \o d.key \o "\": "
            \o (IF "num" \in DOMAIN d
                THEN ToString(d.num)
                ELSE "\"" \o JsonEscape(d.str) \o "\"")
            \o " }"

\* LinesCodec and serde_json::from_str: the document of a line, if it is one
IsJson(data) == \E d \in JsonDocs : JsonText(d) \o "\n" = data
from_str(data) == CHOOSE d \in JsonDocs : JsonText(d) \o "\n" = data

\* a mutant of the decoding: a signal given by name is accepted
Decode_SignalByName(d) ==
    CASE d.status = "running" -> [kind |-> "Running"]
      [] d.status = "exited" /\ "num" \in DOMAIN d /\ d.key = "code" -> ExitedWith(d.num)
      [] d.status = "signaled" /\ "num" \in DOMAIN d /\ d.key = "signal" ->
            SignaledWith(d.num)
      [] d.status = "signaled" /\ "str" \in DOMAIN d /\ d.key = "signal" ->
            SignaledWith(SignalNumber(d.str))
      [] d.status = "fatal" /\ "str" \in DOMAIN d /\ d.key = "error" -> FatalWith(d.str)
      [] OTHER -> Err("error parsing status line")

\* Deserialize for EnclaveProcessStatus (tag = "status")
Decode(d) ==
    CASE d.status = "running" -> [kind |-> "Running"]
      [] d.status = "exited" /\ "num" \in DOMAIN d /\ d.key = "code" -> ExitedWith(d.num)
      [] d.status = "signaled" /\ "num" \in DOMAIN d /\ d.key = "signal" ->
            SignaledWith(d.num)
      [] d.status = "fatal" /\ "str" \in DOMAIN d /\ d.key = "error" -> FatalWith(d.str)
      [] OTHER -> Err("error parsing status line")

\* await_exit's handling of one chunk the status port delivered
ParseStatusLine(data) ==
    IF IsJson(data) THEN Decode(from_str(data)) ELSE Err("error parsing status line")

\* the state once enclaver-run's run() has registered the signal handler, built
\* the Enclave from opts and spawned the shutdown handler task
RunnerInit(opts) ==
    /\ args = opts
    /\ rpc = "run"
    /\ enclave_info = "None"
    /\ enclave = "none"
    /\ tool = <<>>
    /\ tasks = <<>>
    /\ teardown = <<>>
    /\ failed_attempts = 0
    /\ conn = FALSE
    /\ rd = 0
    /\ exit_res = NoResult
    /\ run_res = NoResult
    /\ shutdown_signal = FALSE
    /\ cancelled = FALSE
    /\ sig_at = "never"
    /\ exit_code = <<>>

\* Enclave::run returns res to enclaver-run's run()
Return(res) ==
    /\ run_res' = res
    /\ rpc' = "returned"

\* Enclave::run: the enclave_info check and start_egress_proxy().await?
StartEgressProxy ==
    /\ rpc = "run"
    /\ enclave_info = "None"
    /\ \/ /\ ~args.egress
          /\ rpc' = "run_enclave"
          /\ UNCHANGED <<tasks, run_res>>
       \/ /\ args.egress
          /\ \E bound \in BOOLEAN :
                IF bound
                THEN /\ tasks' = Append(tasks, "egress")
                     /\ rpc' = "run_enclave"
                     /\ UNCHANGED run_res
                ELSE /\ Return(Err("bind"))
                     /\ UNCHANGED tasks
    /\ UNCHANGED <<args, enclave_info, enclave, tool, teardown, failed_attempts, conn, rd,
                   exit_res, shutdown_signal, cancelled, sig_at, exit_code>>

\* Enclave::run: self.cli.run_enclave(..).await? and the assignment of
\* enclave_info; run_and_deserialize_output calls to_args()? before it spawns
RunEnclave ==
    /\ rpc = "run_enclave"
    /\ IF ~ToArgsOk(args.cpu_count, args.memory_mb)
       THEN /\ Return(Err("to_args"))
            /\ UNCHANGED <<tool, enclave_info, enclave>>
       ELSE /\ tool' = Append(tool, "run-enclave")
            /\ \E started \in BOOLEAN :
                  IF started
                  THEN /\ enclave_info' = "Some"
                       /\ enclave' = "running"
                       /\ rpc' = "console"
                       /\ UNCHANGED run_res
                  ELSE /\ Return(Err("run-enclave"))
                       /\ UNCHANGED <<enclave_info, enclave>>
    /\ UNCHANGED <<args, tasks, teardown, failed_attempts, conn, rd, exit_res,
                   shutdown_signal,
                   cancelled, sig_at, exit_code>>

\* Enclave::run: if self.debug_mode { self.attach_debug_console(..).await? }
AttachDebugConsole ==
    /\ rpc = "console"
    /\ \/ /\ ~args.debug_mode
          /\ rpc' = "log"
          /\ UNCHANGED <<tool, tasks, run_res>>
       \/ /\ args.debug_mode
          /\ tool' = Append(tool, "console")
          /\ \E spawned \in BOOLEAN :
                IF spawned
                THEN /\ tasks' = Append(tasks, "console")
                     /\ rpc' = "log"
                     /\ UNCHANGED run_res
                ELSE /\ Return(Err("console"))
                     /\ UNCHANGED tasks
    /\ UNCHANGED <<args, enclave_info, enclave, teardown, failed_attempts, conn, rd,
                   exit_res, shutdown_signal, cancelled, sig_at, exit_code>>

\* Enclave::run: self.start_odyn_log_stream(cid)
StartOdynLogStream ==
    /\ rpc = "log"
    /\ tasks' = Append(tasks, "log")
    /\ rpc' = "ingress"
    /\ UNCHANGED <<args, enclave_info, enclave, tool, teardown, failed_attempts, conn, rd,
                   exit_res, run_res, shutdown_signal, cancelled, sig_at, exit_code>>

\* Enclave::run: self.start_ingress_proxies(cid).await?; the bind of listener
\* number failed fails (0: none does), the listeners before it are serving
StartIngressProxies ==
    /\ rpc = "ingress"
    /\ \E failed \in 0..args.ingress :
          LET bound == IF failed = 0 THEN args.ingress ELSE failed - 1
          IN /\ tasks' = tasks \o [i \in 1..bound |-> "ingress"]
             /\ IF failed = 0
                THEN rpc' = "await" /\ UNCHANGED run_res
                ELSE Return(Err("bind"))
    /\ UNCHANGED <<args, enclave_info, enclave, tool, teardown, failed_attempts, conn, rd,
                   exit_res, shutdown_signal, cancelled, sig_at, exit_code>>

\* await_exit returns res: the select! in Enclave::run completes with it
AwaitExitReturns(res) ==
    /\ exit_res' = res
    /\ rpc' = "cleanup"

\* a mutant of the retry limit: one attempt more is made
GiveUp_OneMore(attempts) == attempts > STATUS_VSOCK_RETRY_LIMIT

\* await_exit: failed_attempts >= STATUS_VSOCK_RETRY_LIMIT
GiveUp(attempts) == attempts >= STATUS_VSOCK_RETRY_LIMIT

\* await_exit: VsockStream::connect fails: the status port is not bound. The
\* supervisor that will bind it has done so within MaxBootAttempts attempts.
StatusConnectFail ==
    /\ rpc = "await" /\ ~conn
    /\ ~(ProcessAlive /\ listening)
    /\ sup = "new" => failed_attempts < MaxBootAttempts
    /\ failed_attempts' = failed_attempts + 1
    /\ IF GiveUp(failed_attempts + 1)
       THEN AwaitExitReturns(Err("status port"))
       ELSE UNCHANGED <<exit_res, rpc>>
    /\ UNCHANGED <<args, enclave_info, enclave, tool, tasks, teardown, conn, rd, run_res,
                   shutdown_signal, cancelled, sig_at, exit_code>>

\* a mutant of await_exit: a successful connection resets the counter
StatusConnect_Reset ==
    /\ rpc = "await" /\ ~conn
    /\ StreamStart(RunnerSub)
    /\ conn' = TRUE
    /\ failed_attempts' = 0
    /\ UNCHANGED <<args, rpc, enclave_info, enclave, tool, tasks, teardown,
                   rd, exit_res, run_res, shutdown_signal, cancelled, sig_at, exit_code>>

\* await_exit: VsockStream::connect succeeds; the supervisor accepts the
\* connection and starts its stream task
StatusConnect ==
    /\ rpc = "await" /\ ~conn
    /\ StreamStart(RunnerSub)
    /\ conn' = TRUE
    /\ UNCHANGED <<args, rpc, enclave_info, enclave, tool, tasks, teardown,
                   failed_attempts, rd, exit_res, run_res, shutdown_signal, cancelled, sig_at,
                   exit_code>>

\* await_exit: framed.next() yields a line; it is parsed and matched
StatusReadLine ==
    /\ rpc = "await" /\ conn
    /\ rd < Len(lines[RunnerSub])
    /\ rd' = rd + 1
    /\ LET st == ParseStatusLine(lines[RunnerSub][rd + 1])
       IN IF st.kind \in {"Exited", "Signaled", "Fatal"}
          THEN AwaitExitReturns(st)
          ELSE UNCHANGED <<exit_res, rpc>>
    /\ UNCHANGED <<args, enclave_info, enclave, tool, tasks, teardown, failed_attempts,
                   conn, run_res, shutdown_signal, cancelled, sig_at, exit_code>>

\* await_exit: the stream ends ("enclave status port closed unexpectedly")
\* because the supervisor's process has exited; the loop dials again
StatusPortClosed ==
    /\ rpc = "await" /\ conn
    /\ sup = "failed"
    /\ rd = Len(lines[RunnerSub])
    /\ conn' = FALSE
    /\ UNCHANGED <<args, rpc, enclave_info, enclave, tool, tasks, teardown,
                   failed_attempts, rd, exit_res, run_res, shutdown_signal, cancelled, sig_at,
                   exit_code>>

\* a mutant of the select!: a cancelled run returns without its cleanup
SelectCancelled_NoCleanup ==
    /\ rpc = "await"
    /\ cancelled
    /\ exit_res' = Cancelled
    /\ Return(Cancelled)
    /\ UNCHANGED <<args, enclave_info, enclave, tool, tasks, teardown, failed_attempts,
                   conn, rd, shutdown_signal, cancelled, sig_at, exit_code>>

\* select!: cancellation.cancelled() completes
SelectCancelled ==
    /\ rpc = "await"
    /\ cancelled
    /\ AwaitExitReturns(Cancelled)
    /\ UNCHANGED <<args, enclave_info, enclave, tool, tasks, teardown, failed_attempts,
                   conn, rd, run_res, shutdown_signal, cancelled, sig_at, exit_code>>

\* a mutant of cleanup: the task pushed last is not aborted
CleanupEvents_SkipLast(terminated, ts) ==
    IF terminated
    THEN <<"terminate_enclave">> \o [i \in 1..(Len(ts) - 1) |-> "abort"]
    ELSE <<"terminate_enclave">>

\* Enclave::cleanup: terminate_enclave(..).await?, then abort and await each task
CleanupEvents(terminated, ts) ==
    IF terminated
    THEN <<"terminate_enclave">> \o [i \in 1..Len(ts) |-> "abort"]
    ELSE <<"terminate_enclave">>

\* Enclave::run: self.cleanup().await (an error is logged), then exit_res
Cleanup ==
    /\ rpc = "cleanup"
    /\ IF enclave_info = "Some"
       THEN /\ tool' = Append(tool, "terminate-enclave")
            /\ \E terminated \in BOOLEAN :
                  /\ teardown' = CleanupEvents(terminated, tasks)
                  /\ enclave' = IF terminated THEN "terminated" ELSE enclave
                  /\ tasks' = IF terminated THEN <<>> ELSE tasks
       ELSE /\ teardown' = [i \in 1..Len(tasks) |-> "abort"]
            /\ tasks' = <<>>
            /\ UNCHANGED <<tool, enclave>>
    /\ Return(exit_res)
    /\ UNCHANGED <<args, enclave_info, failed_attempts, conn, rd, exit_res,
                   shutdown_signal,
                   cancelled, sig_at, exit_code>>

\* a mutant of the cast: the code is clamped to 0..255
AsU8_Saturating(code) == IF code < 0 THEN 0 ELSE IF code > 255 THEN 255 ELSE code

\* code as u8: the low eight bits of the two's complement i32; those of a
\* negative code are the complement of the low eight bits of -(code + 1)
AsU8(code) == IF code >= 0 THEN code % 256 ELSE 255 - ((-(code + 1)) % 256)

\* <CLISuccess as Termination>::report for CLISuccess::EnclaveStatus(res)
report(res) ==
    CASE res.kind = "Exited" -> AsU8(res.code)
      [] res.kind = "Signaled" -> ENCLAVE_SIGNALED_EXIT_CODE
      [] res.kind = "Fatal" -> ENCLAVE_FATAL
      [] res.kind = "Cancelled" -> ENCLAVER_INTERRUPTED

\* enclaver-run: run() passes an Err on with ?, or wraps the status; main's
\* result is reported as the exit code of the process
MainReport ==
    /\ rpc = "returned"
    /\ exit_code' = <<IF run_res.kind = "Err" THEN EXIT_FAILURE ELSE report(run_res)>>
    /\ rpc' = "exited"
    /\ UNCHANGED <<args, enclave_info, enclave, tool, tasks, teardown, failed_attempts,
                   conn, rd, exit_res, run_res, shutdown_signal, cancelled, sig_at>>

\* SIGINT or SIGTERM is delivered to the runner
Signal ==
    /\ ~shutdown_signal
    /\ rpc \notin {"returned", "exited"}
    /\ shutdown_signal' = TRUE
    /\ sig_at' = IF enclave = "running" /\ rpc = "await" THEN "await"
                 ELSE IF enclave = "running" /\ rpc \in {"console", "log", "ingress"}
                      THEN "starting"
                      ELSE "other"
    /\ UNCHANGED <<args, rpc, enclave_info, enclave, tool, tasks, teardown,
                   failed_attempts, conn, rd, exit_res, run_res, cancelled, exit_code>>

\* the shutdown handler task: shutdown_signal.await; cancellation.cancel()
ShutdownHandler ==
    /\ shutdown_signal /\ ~cancelled
    /\ rpc # "exited"
    /\ cancelled' = TRUE
    /\ UNCHANGED <<args, rpc, enclave_info, enclave, tool, tasks, teardown,
                   failed_attempts, conn, rd, exit_res, run_res, shutdown_signal, sig_at,
                   exit_code>>

(***************************************************************************)
(* The log stream task Enclave::start_odyn_log_stream spawns: it dials the *)
(* supervisor's log port until the connection is made, then copies lines.  *)
(***************************************************************************)
\* milliseconds
LOG_VSOCK_RETRY_INTERVAL == 250

DialInit ==
    /\ log_pc = "dial"
    /\ log_attempts = 0
    /\ log_port = FALSE

\* a mutant of the Err arm: the loop gives up after as many attempts as the
\* status dial loop makes
AfterLogDialError_Limit(attempts) ==
    IF attempts >= STATUS_VSOCK_RETRY_LIMIT THEN "gave_up" ELSE "sleep"

\* the Err arm of the match on VsockStream::connect: sleep, then loop
AfterLogDialError(attempts) == "sleep"

\* the supervisor in the enclave binds the log port
LogPortBound ==
    /\ ~log_port
    /\ log_pc \in {"dial", "sleep"}
    /\ log_port' = TRUE
    /\ UNCHANGED <<log_pc, log_attempts>>

\* VsockStream::connect(cid, APP_LOG_PORT) fails
LogDialFail ==
    /\ log_pc = "dial"
    /\ ~log_port
    /\ log_attempts < MaxLogAttempts
    /\ log_attempts' = log_attempts + 1
    /\ log_pc' = AfterLogDialError(log_attempts + 1)
    /\ UNCHANGED log_port

\* tokio::time::sleep(LOG_VSOCK_RETRY_INTERVAL) is over
LogDialRetry ==
    /\ log_pc = "sleep"
    /\ log_pc' = "dial"
    /\ UNCHANGED <<log_attempts, log_port>>

\* VsockStream::connect succeeds: break conn
LogDialConnected ==
    /\ log_pc = "dial"
    /\ log_port
    /\ log_pc' = "stream"
    /\ UNCHANGED <<log_attempts, log_port>>

\* log_lines_from_stream returns: the stream ended or failed
LogStreamEnds ==
    /\ log_pc = "stream"
    /\ log_pc' = "ended"
    /\ UNCHANGED <<log_attempts, log_port>>

\* Enclave::cleanup aborts the task
LogTaskAborted ==
    /\ log_pc \in {"dial", "sleep", "stream"}
    /\ log_pc' = "aborted"
    /\ UNCHANGED <<log_attempts, log_port>>

(***************************************************************************)
(* Egress: the HTTP proxy in the enclave (proxy, handle_connect,           *)
(* handle_request, remote_connect) and the host side of its vsock stream   *)
(* (HostHttpProxy::service_conn), src/enclaver/src/proxy/egress_http.rs,   *)
(* with the policy of src/enclaver/src/policy.                             *)
(***************************************************************************)
OUTSIDE_HOST == "host"

\* ASCII lower case of a label
to_ascii_lowercase(label) ==
    CASE label = "EXAMPLE" -> "example"
      [] label = "A" -> "a"
      [] label = "HOST" -> "host"
      [] OTHER -> label

\* a host as it stands in a request URI: a domain name given by its labels, an
\* IP literal, or one of these between square brackets (the IPv6 literal of a
\* URI comes with its brackets)
DomainHost(labels) == [kind |-> "domain", labels |-> labels]
Ip4Host(addr) == [kind |-> "ip4", addr |-> addr]
Ip6Host(addr) == [kind |-> "ip6", addr |-> addr]
Bracketed(host) == [kind |-> "bracketed", inner |-> host]
Hosts ==
    {DomainHost(<<"example", "com">>), DomainHost(<<"EXAMPLE", "com">>),
     DomainHost(<<"bad", "example", "com">>), DomainHost(<<"host">>),
     Ip4Host(1), Ip4Host(2), Bracketed(Ip6Host(1))}

\* host.strip_prefix('[') and host.strip_suffix(']')
StripBrackets(host) == IF host.kind = "bracketed" THEN host.inner ELSE host

\* host.parse::<IpAddr>() of the stripped text
IsIpAddr(host) == StripBrackets(host).kind \in {"ip4", "ip6"}
IpAddr(host) == [v |-> StripBrackets(host).kind, addr |-> StripBrackets(host).addr]

Reverse(s) == [i \in 1..Len(s) |-> s[Len(s) + 1 - i]]

\* domain_filter::Pattern::new and Domain::new: the parts, last label first
PatternNew(pat) ==
    Reverse([i \in 1..Len(pat) |->
                IF pat[i] \in {"**", "*"} THEN pat[i] ELSE to_ascii_lowercase(pat[i])])
DomainNew(labels) == Reverse([i \in 1..Len(labels) |-> to_ascii_lowercase(labels[i])])

\* domain_filter::Pattern::matches
RECURSIVE PatternMatches(_, _)
PatternMatches(pat, q) ==
    IF pat = <<>> THEN q = <<>>
    ELSE IF q = <<>> THEN FALSE
    ELSE CASE Head(pat) = "**" -> TRUE
           [] Head(pat) = "*" -> PatternMatches(Tail(pat), Tail(q))
           [] OTHER -> Head(pat) = Head(q) /\ PatternMatches(Tail(pat), Tail(q))

\* DomainFilter::matches
DomainFilterMatches(patterns, labels) ==
    \E pat \in patterns : PatternMatches(PatternNew(pat), DomainNew(labels))

\* IpFilter::matches: a network is a version and a range of addresses
IpFilterMatches(networks, ip) ==
    \E net \in networks : net.v = ip.v /\ net.lo <= ip.addr /\ ip.addr <= net.hi

\* a mutant of is_host_allowed: a host is allowed when an allow entry matches
\* it or no deny entry does
is_host_allowed_Either(pol, host) ==
    IF IsIpAddr(host)
    THEN IpFilterMatches(pol.ip_allow, IpAddr(host))
            \/ ~IpFilterMatches(pol.ip_deny, IpAddr(host))
    ELSE DomainFilterMatches(pol.domain_allow, StripBrackets(host).labels)
            \/ ~DomainFilterMatches(pol.domain_deny, StripBrackets(host).labels)

\* a mutant of is_host_allowed: the deny lists are not consulted
is_host_allowed_NoDeny(pol, host) ==
    IF IsIpAddr(host)
    THEN IpFilterMatches(pol.ip_allow, IpAddr(host))
    ELSE DomainFilterMatches(pol.domain_allow, StripBrackets(host).labels)

\* EgressPolicy::is_host_allowed
is_host_allowed(pol, host) ==
    IF IsIpAddr(host)
    THEN IpFilterMatches(pol.ip_allow, IpAddr(host))
            /\ ~IpFilterMatches(pol.ip_deny, IpAddr(host))
    ELSE DomainFilterMatches(pol.domain_allow, StripBrackets(host).labels)
            /\ ~DomainFilterMatches(pol.domain_deny, StripBrackets(host).labels)

\* EgressPolicy::allow_all, and policies built by EgressPolicy::new
AllowAll ==
    [domain_allow |-> {<<"**">>}, domain_deny |-> {},
     ip_allow |-> {[v |-> "ip4", lo |-> 0, hi |-> 3], [v |-> "ip6", lo |-> 0, hi |-> 3]},
     ip_deny |-> {}]
Policies ==
    {AllowAll,
     [domain_allow |-> {<<"**", "example", "com">>, <<"host">>},
      domain_deny |-> {<<"bad", "example", "com">>},
      ip_allow |-> {[v |-> "ip4", lo |-> 0, hi |-> 3]},
      ip_deny |-> {[v |-> "ip4", lo |-> 2, hi |-> 2]}],
     [domain_allow |-> {}, domain_deny |-> {}, ip_allow |-> {}, ip_deny |-> {}]}

\* the requests the proxy is given: a method, and the host and port of the
\* request URI where it has them
NoHost == [kind |-> "none"]
NoPort == 0
Requests ==
    [method : {"CONNECT", "GET"}, host : Hosts \cup {NoHost}, port : {NoPort, 443}]

\* the HTTP responses the proxy itself makes
NoResponse == [status |-> 0, body |-> ""]
err_resp(status_code, msg) == [status |-> status_code, body |-> msg]
bad_request(msg) == err_resp(400, msg)
blocked == err_resp(401, "blocked by egress security policy")
unavailable == err_resp(503, "remote_connect")
established == [status |-> 200, body |-> ""]

\* the frames of the control protocol, and a spliced byte
ConnectRequest(host, port) == [frame |-> "ConnectRequest", host |-> host, port |-> port]
ConnectResponseOk == [frame |-> "ConnectResponse", ok |-> TRUE]
ConnectResponseErr == [frame |-> "ConnectResponse", ok |-> FALSE]
RawByte == [frame |-> "raw"]

EgressInit ==
    /\ request \in Requests
    /\ policy \in Policies
    /\ ppc = "request"
    /\ response = NoResponse
    /\ vsock_opened = 0
    /\ e2h = <<>>
    /\ h2e = <<>>
    /\ erd = 0
    /\ hrd = 0
    /\ hpc = "idle"
    /\ conn_req = NoHost
    /\ target = NoHost
    /\ sends = 0

\* the state of the egress part in the specifications that are not about it
EgressIdle ==
    /\ request = [method |-> "GET", host |-> NoHost, port |-> NoPort]
    /\ policy = AllowAll
    /\ ppc = "request"
    /\ response = NoResponse
    /\ vsock_opened = 0
    /\ e2h = <<>>
    /\ h2e = <<>>
    /\ erd = 0
    /\ hrd = 0
    /\ hpc = "idle"
    /\ conn_req = NoHost
    /\ target = NoHost
    /\ sends = 0

\* the address the host side dials for OUTSIDE_HOST: 127.0.0.1
Loopback == [kind |-> "ip4", text |-> "127.0.0.1"]

\* handle_connect and handle_request up to remote_connect: the response made
\* without a connection to the host, NoResponse when the request goes on
Screen(pol, req) ==
    IF req.method = "CONNECT"
    THEN IF req.host = NoHost
         THEN bad_request("CONNECT host is not a socket addr")
         ELSE IF req.port = NoPort
              THEN bad_request("CONNECT address is missing a port")
              ELSE IF ~is_host_allowed(pol, req.host) THEN blocked ELSE NoResponse
    ELSE IF req.host = NoHost
         THEN bad_request("URI is missing a host")
         ELSE IF ~is_host_allowed(pol, req.host) THEN blocked ELSE NoResponse

\* handle_request: req.uri().port_u16().unwrap_or(80)
PortOf(req) == IF req.method # "CONNECT" /\ req.port = NoPort THEN 80 ELSE req.port

\* proxy(): the request is answered at once, or goes on to remote_connect
ProxyRequest ==
    /\ ppc = "request"
    /\ response' = Screen(policy, request)
    /\ ppc' = IF Screen(policy, request) = NoResponse THEN "dial" ELSE "responded"
    /\ UNCHANGED <<request, policy, vsock_opened, e2h, h2e, erd, hrd, hpc, conn_req,
                   target, sends>>

\* remote_connect: VsockStream::connect(VMADDR_CID_HOST, egress_port).await?
RemoteConnectDial ==
    /\ ppc = "dial"
    /\ \E connected \in BOOLEAN :
          IF connected
          THEN /\ vsock_opened' = vsock_opened + 1
               /\ ppc' = "send"
               /\ UNCHANGED response
          ELSE /\ response' = unavailable
               /\ ppc' = "responded"
               /\ UNCHANGED vsock_opened
    /\ UNCHANGED <<request, policy, e2h, h2e, erd, hrd, hpc, conn_req, target, sends>>

\* remote_connect: ConnectRequest::new(host, port).send(&mut vsock).await?
RemoteConnectSend ==
    /\ ppc = "send"
    /\ \E written \in BOOLEAN :
          IF written
          THEN /\ e2h' = Append(e2h, ConnectRequest(request.host, PortOf(request)))
               /\ ppc' = "recv"
               /\ UNCHANGED response
          ELSE /\ response' = unavailable
               /\ ppc' = "responded"
               /\ UNCHANGED e2h
    /\ UNCHANGED <<request, policy, vsock_opened, h2e, erd, hrd, hpc, conn_req, target,
                   sends>>

\* a mutant of remote_connect's match: whatever the host side answered is
\* taken for ConnectResponse::Ok
RemoteConnectRecv_AnyIsOk ==
    /\ ppc = "recv"
    /\ erd < Len(h2e)
    /\ erd' = erd + 1
    /\ ppc' = "tunnel"
    /\ response' = IF request.method = "CONNECT" THEN established ELSE response
    /\ UNCHANGED <<request, policy, vsock_opened, e2h, h2e, hrd, hpc, conn_req, target,
                   sends>>

\* remote_connect: ConnectResponse::recv(&mut vsock).await? and the match; on
\* Ok the caller goes on: handle_connect answers 200 and splices the upgraded
\* connection, handle_request speaks HTTP over the stream
RemoteConnectRecv ==
    /\ ppc = "recv"
    /\ erd < Len(h2e)
    /\ erd' = erd + 1
    /\ IF h2e[erd + 1] = ConnectResponseOk
       THEN /\ ppc' = "tunnel"
            /\ response' = IF request.method = "CONNECT" THEN established ELSE response
       ELSE /\ ppc' = "responded"
            /\ response' = unavailable
    /\ UNCHANGED <<request, policy, vsock_opened, e2h, h2e, hrd, hpc, conn_req, target,
                   sends>>

\* remote_connect: recv fails, the host side has closed the stream
RemoteConnectRecvFail ==
    /\ ppc = "recv"
    /\ erd = Len(h2e)
    /\ hpc \in {"recv_err", "send_err", "done"}
    /\ response' = unavailable
    /\ ppc' = "responded"
    /\ UNCHANGED <<request, policy, vsock_opened, e2h, h2e, erd, hrd, hpc, conn_req,
                   target, sends>>

RawCount(s) == Cardinality({i \in 1..Len(s) : s[i] = RawByte})

\* the enclave side writes a byte of the client's to the stream
TunnelWrite ==
    /\ ppc = "tunnel"
    /\ RawCount(e2h) < MaxSplice
    /\ e2h' = Append(e2h, RawByte)
    /\ UNCHANGED <<request, policy, ppc, response, vsock_opened, h2e, erd, hrd, hpc,
                   conn_req, target, sends>>

\* the enclave side reads a byte from the stream
TunnelRead ==
    /\ ppc = "tunnel"
    /\ erd < Len(h2e)
    /\ erd' = erd + 1
    /\ UNCHANGED <<request, policy, ppc, response, vsock_opened, e2h, h2e, hrd, hpc,
                   conn_req, target, sends>>

\* the enclave side is done with the stream
TunnelClose ==
    /\ ppc = "tunnel"
    /\ ppc' = "closed"
    /\ UNCHANGED <<request, policy, response, vsock_opened, e2h, h2e, erd, hrd, hpc,
                   conn_req, target, sends>>

\* HostHttpProxy::serve: a stream is accepted and service_conn spawned
HostAccept ==
    /\ hpc = "idle"
    /\ vsock_opened > 0
    /\ hpc' = "recv"
    /\ UNCHANGED <<request, policy, ppc, response, vsock_opened, e2h, h2e, erd, hrd,
                   conn_req, target, sends>>

\* service_conn: ConnectRequest::recv(&mut vsock).await?
HostRecv ==
    /\ hpc = "recv"
    /\ hrd < Len(e2h)
    /\ conn_req' = e2h[hrd + 1]
    /\ hrd' = hrd + 1
    /\ hpc' = "connect"
    /\ UNCHANGED <<request, policy, ppc, response, vsock_opened, e2h, h2e, erd, target,
                   sends>>

\* service_conn: recv fails, the enclave side closed the stream unsent
HostRecvFail ==
    /\ hpc = "recv"
    /\ hrd = Len(e2h)
    /\ ppc = "responded"
    /\ hpc' = "recv_err"
    /\ UNCHANGED <<request, policy, ppc, response, vsock_opened, e2h, h2e, erd, hrd,
                   conn_req, target, sends>>

\* conn_req.host.eq_ignore_ascii_case(OUTSIDE_HOST)
IsOutsideHost(host) ==
    /\ host.kind = "domain"
    /\ Len(host.labels) = 1
    /\ to_ascii_lowercase(host.labels[1]) = OUTSIDE_HOST

\* service_conn: the host to dial, and TcpStream::connect((host, port))
HostConnect ==
    /\ hpc = "connect"
    /\ target' = IF IsOutsideHost(conn_req.host) THEN Loopback ELSE conn_req.host
    /\ \E connected \in BOOLEAN : hpc' = IF connected THEN "send_ok" ELSE "send_err_resp"
    /\ UNCHANGED <<request, policy, ppc, response, vsock_opened, e2h, h2e, erd, hrd,
                   conn_req, sends>>

\* service_conn, Ok arm: ConnectResponse::Ok.send(&mut vsock).await?
HostSendOk ==
    /\ hpc = "send_ok"
    /\ sends' = sends + 1
    /\ \E written \in BOOLEAN :
          IF written
          THEN h2e' = Append(h2e, ConnectResponseOk) /\ hpc' = "splice"
          ELSE hpc' = "send_err" /\ UNCHANGED h2e
    /\ UNCHANGED <<request, policy, ppc, response, vsock_opened, e2h, erd, hrd, conn_req,
                   target>>

\* a mutant of the Err arm: the bytes are spliced after an Err response too
HostSendErr_ThenSplice ==
    /\ hpc = "send_err_resp"
    /\ sends' = sends + 1
    /\ h2e' = Append(h2e, ConnectResponseErr)
    /\ hpc' = "splice"
    /\ UNCHANGED <<request, policy, ppc, response, vsock_opened, e2h, erd, hrd, conn_req,
                   target>>

\* service_conn, Err arm: ConnectResponse::failed(&err).send(&mut vsock).await?
HostSendErr ==
    /\ hpc = "send_err_resp"
    /\ sends' = sends + 1
    /\ \E written \in BOOLEAN :
          IF written
          THEN h2e' = Append(h2e, ConnectResponseErr) /\ hpc' = "done"
          ELSE hpc' = "send_err" /\ UNCHANGED h2e
    /\ UNCHANGED <<request, policy, ppc, response, vsock_opened, e2h, erd, hrd, conn_req,
                   target>>

\* copy_bidirectional: a byte from the remote is written to the stream
HostSpliceToVsock ==
    /\ hpc = "splice"
    /\ RawCount(h2e) < MaxSplice
    /\ h2e' = Append(h2e, RawByte)
    /\ UNCHANGED <<request, policy, ppc, response, vsock_opened, e2h, erd, hrd, hpc,
                   conn_req, target, sends>>

\* copy_bidirectional: a byte from the stream is written to the remote
HostSpliceFromVsock ==
    /\ hpc = "splice"
    /\ hrd < Len(e2h)
    /\ hrd' = hrd + 1
    /\ UNCHANGED <<request, policy, ppc, response, vsock_opened, e2h, h2e, erd, hpc,
                   conn_req, target, sends>>

\* copy_bidirectional returns
HostSpliceEnd ==
    /\ hpc = "splice"
    /\ hpc' = "done"
    /\ UNCHANGED <<request, policy, ppc, response, vsock_opened, e2h, h2e, erd, hrd,
                   conn_req, target, sends>>

(***************************************************************************)
(* The egress policy by itself: EgressPolicy::new from the egress section  *)
(* of the manifest and is_host_allowed (src/enclaver/src/policy/mod.rs),   *)
(* and Pattern::matches of src/enclaver/src/policy/domain_filter.rs.       *)
(***************************************************************************)
\* the entries of an allow or deny list: the text of a domain pattern, given
\* by its labels, or the text of an IP network, given by its range
DomPattern(labels) == [kind |-> "dom", labels |-> labels]
NetPattern(v, lo, hi) == [kind |-> "net", v |-> v, lo |-> lo, hi |-> hi]
ListEntries ==
    {DomPattern(<<"**", "example", "com">>), DomPattern(<<"bad", "example", "com">>),
     DomPattern(<<"host">>), NetPattern("ip4", 0, 3), NetPattern("ip4", 2, 2),
     NetPattern("ip6", 0, 3)}

\* Option<Vec<String>>
None == [some |-> FALSE, list |-> <<>>]
Some(list) == [some |-> TRUE, list |-> list]
Lists == UNION {[1..n -> ListEntries] : n \in 0..MaxList}
EgressSpecs == [allow : {None} \cup {Some(l) : l \in Lists},
                deny : {None} \cup {Some(l) : l \in Lists}]

\* ip_filter::Pattern::new: pattern.parse::<IpNetwork>()
ParsesAsIpNetwork(entry) == entry.kind = "net"

\* a mutant of load_filters: an absent list gives the filters of allow_all
load_filters_AbsentIsAll(opt_spec) ==
    IF opt_spec.some
    THEN LET entries == {opt_spec.list[i] : i \in 1..Len(opt_spec.list)}
         IN [domains |-> {e.labels : e \in {x \in entries : ~ParsesAsIpNetwork(x)}},
             ips |-> {[v |-> e.v, lo |-> e.lo, hi |-> e.hi] :
                         e \in {x \in entries : ParsesAsIpNetwork(x)}}]
    ELSE [domains |-> {<<"**">>},
          ips |-> {[v |-> "ip4", lo |-> 0, hi |-> 3], [v |-> "ip6", lo |-> 0, hi |-> 3]}]

\* load_filters: an entry that parses as an IP network goes to the IP filter,
\* any other entry to the domain filter
load_filters(opt_spec) ==
    LET entries == {opt_spec.list[i] : i \in 1..Len(opt_spec.list)}
    IN [domains |-> {e.labels : e \in {x \in entries : ~ParsesAsIpNetwork(x)}},
        ips |-> {[v |-> e.v, lo |-> e.lo, hi |-> e.hi] :
                    e \in {x \in entries : ParsesAsIpNetwork(x)}}]

\* EgressPolicy::new
EgressPolicyNew(spec) ==
    [domain_allow |-> load_filters(spec.allow).domains,
     domain_deny |-> load_filters(spec.deny).domains,
     ip_allow |-> load_filters(spec.allow).ips,
     ip_deny |-> load_filters(spec.deny).ips]

\* the hosts is_host_allowed is asked about: those of request URIs, an IPv6
\* literal without brackets and an IPv4 literal between brackets
PolicyHosts == Hosts \cup {Ip6Host(1), Bracketed(Ip4Host(2))}

\* the texts of patterns and of domains, by their labels
Labels == {"a", "A", "b"}
PatternTexts == UNION {[1..n -> Labels \cup {"*", "**"}] : n \in 1..MaxLabels}
DomainTexts == UNION {[1..n -> Labels] : n \in 1..MaxLabels}

\* the policy part where it takes no step
PolicyIdle ==
    /\ egress_spec = [allow |-> None, deny |-> None]
    /\ built = EgressPolicyNew([allow |-> None, deny |-> None])
    /\ asked = NoHost
    /\ allowed = FALSE
    /\ pat_in = <<>>
    /\ dom_in = <<>>
    /\ matched = FALSE
    /\ pol_pc = "new"

\* EgressPolicy::new(spec)
NewPolicy ==
    /\ pol_pc = "new"
    /\ built' = EgressPolicyNew(egress_spec)
    /\ pol_pc' = "built"
    /\ UNCHANGED <<egress_spec, asked, allowed, pat_in, dom_in, matched>>

\* policy.is_host_allowed(host)
IsHostAllowed ==
    /\ pol_pc = "built"
    /\ \E h \in PolicyHosts :
          /\ asked' = h
          /\ allowed' = is_host_allowed(built, h)
    /\ pol_pc' = "asked"
    /\ UNCHANGED <<egress_spec, built, pat_in, dom_in, matched>>

\* Pattern::new(pat).matches(&Domain::new(dom))
MatchPattern ==
    /\ pol_pc = "new"
    /\ pat_in # <<>>
    /\ matched' = PatternMatches(PatternNew(pat_in), DomainNew(dom_in))
    /\ pol_pc' = "matched"
    /\ UNCHANGED <<egress_spec, built, asked, allowed, pat_in, dom_in>>

(***************************************************************************)
(* The supervisor's launch() in detail (src/enclaver/src/bin/odyn/main.rs) *)
(* with the services it starts and stops, the child and the reaper         *)
(* (launcher.rs), and the ingress bridge: EnclaveProxy in the enclave and  *)
(* HostProxy in the runner (src/enclaver/src/proxy/ingress.rs).            *)
(***************************************************************************)
HTTP_EGRESS_PROXY_PORT == 9000

\* the egress section of the manifest as EgressService reads it
NoEgress == [present |-> FALSE, allow |-> None, proxy_port |-> NoPort]
EgressSection(allow, port) == [present |-> TRUE, allow |-> allow, proxy_port |-> port]
EgressSections ==
    {NoEgress, EgressSection(None, NoPort), EgressSection(Some(<<>>), 8080),
     EgressSection(Some(<<DomPattern(<<"**">>)>>), NoPort),
     EgressSection(Some(<<DomPattern(<<"**">>)>>), 8080)}

\* the command line and the configuration directory of the supervisor
Confs ==
    [no_console : BOOLEAN, no_bootstrap : BOOLEAN, egress : EgressSections,
     listeners : 0..1, kms_proxy : {NoPort, 8000}, api : {NoPort, 8001}]

\* egress.rs is_enabled
is_enabled(config) ==
    /\ config.egress.present
    /\ config.egress.allow.some
    /\ config.egress.allow.list # <<>>

\* egress.rs proxy_port
proxy_port(config) ==
    IF config.egress.proxy_port = NoPort
    THEN HTTP_EGRESS_PROXY_PORT
    ELSE config.egress.proxy_port

\* the environment of the supervisor: the variables it may set, "" when unset
EnvNames ==
    {"http_proxy", "https_proxy", "HTTP_PROXY", "HTTPS_PROXY", "no_proxy", "NO_PROXY",
     "AWS_KMS_ENDPOINT"}
Unset == ""

\* egress.rs set_proxy_env_var
set_proxy_env_var(e, value) ==
    [n \in EnvNames |->
        IF n \in {"http_proxy", "https_proxy", "HTTP_PROXY", "HTTPS_PROXY"}
        THEN value
        ELSE e[n]]

\* the pids waitpid reports: the child launch() started, and a descendant
\* that was left to the supervisor
Sentinel == 1
Pids == {Sentinel, 2}

\* nix WaitStatus, and waitpid failing
WaitExited(pid, code) == [ws |-> "Exited", pid |-> pid, code |-> code]
WaitSignaled(pid, sig) == [ws |-> "Signaled", pid |-> pid, sig |-> sig]
WaitOther(pid) == [ws |-> "Stopped", pid |-> pid]
WaitFailed == [ws |-> "Err", pid |-> 0]
WaitStatuses ==
    {WaitExited(p, c) : p \in Pids, c \in ExitCodes}
        \cup {WaitSignaled(p, g) : p \in Pids, g \in Signals}
        \cup {WaitOther(p) : p \in Pids}
        \cup {WaitFailed}

\* what reap returned: nothing yet, a status, or an error
ReapPending == [kind |-> "pending"]
ReapOk(exit_status) == [kind |-> "Ok", exit_status |-> exit_status]
ReapErr == [kind |-> "Err"]

\* a mutant of reap's match: the pid of the report is not compared
reap_AnyPid(sentinel, wait_status) ==
    CASE wait_status.ws = "Err" -> ReapErr
      [] wait_status.ws = "Exited" ->
            ReapOk([kind |-> "Exited", code |-> wait_status.code])
      [] wait_status.ws = "Signaled" ->
            ReapOk([kind |-> "Signaled", sig |-> wait_status.sig])
      [] OTHER -> ReapPending

\* one turn of reap's loop for what waitpid gave: ReapPending is to go on
reap(sentinel, wait_status) ==
    CASE wait_status.ws = "Err" -> ReapErr
      [] wait_status.ws = "Exited" /\ wait_status.pid = sentinel ->
            ReapOk([kind |-> "Exited", code |-> wait_status.code])
      [] wait_status.ws = "Signaled" /\ wait_status.pid = sentinel ->
            ReapOk([kind |-> "Signaled", sig |-> wait_status.sig])
      [] OTHER -> ReapPending

\* the connections of the ingress bridge
Conns == 1..MaxConns

LaunchIdle ==
    /\ conf = [no_console |-> FALSE, no_bootstrap |-> FALSE, egress |-> NoEgress,
               listeners |-> 0, kms_proxy |-> NoPort, api |-> NoPort]
    /\ lpc = "config"
    /\ events = <<>>
    /\ env = [n \in EnvNames |-> Unset]
    /\ failure = "none"
    /\ nwaits = 0
    /\ last_wait = WaitOther(Sentinel)
    /\ rres = ReapPending
    /\ ing_pc = "off"
    /\ conns = [c \in Conns |-> "none"]
    /\ hserve = "off"
    /\ hconns = [c \in Conns |-> "none"]

LaunchInit ==
    /\ conf \in Confs
    /\ lpc = "config"
    /\ events = <<>>
    /\ env = [n \in EnvNames |-> Unset]
    /\ failure = "none"
    /\ nwaits = 0
    /\ last_wait = WaitOther(Sentinel)
    /\ rres = ReapPending
    /\ ing_pc = "off"
    /\ conns = [c \in Conns |-> "none"]
    /\ hserve = "off"
    /\ hconns = [c \in Conns |-> "none"]

\* a step of launch() that ends it with an error: the ? returns
Fails(what) ==
    /\ lpc' = "err"
    /\ failure' = what

\* run(): AppStatus::new() and app_status.start_serving(STATUS_PORT)
RunStartStatus ==
    /\ SupStartServing
    /\ events' = Append(events, "status")
    /\ UNCHANGED <<conf, lpc, env, failure, nwaits, last_wait, rres, ing_pc, conns, hserve, hconns>>

\* run(): the log is served, unless --no-console
RunStartLog ==
    /\ SupConsoleReady
    /\ events' = IF conf.no_console THEN events ELSE Append(events, "log")
    /\ UNCHANGED <<conf, lpc, env, failure, nwaits, last_wait, rres, ing_pc, conns, hserve, hconns>>

\* run(): AppLog::with_stdio_redirect()? fails
RunRedirectFails ==
    /\ ~conf.no_console
    /\ SupRedirectFailed
    /\ failure' = "redirect"
    /\ UNCHANGED <<conf, lpc, events, env, nwaits, last_wait, rres, ing_pc, conns, hserve, hconns>>

\* launch(): Configuration::load(&args.config_dir).await?
LoadConfiguration ==
    /\ sup = "launch" /\ lpc = "config"
    /\ \E ok \in BOOLEAN :
          IF ok
          THEN /\ lpc' = "bootstrap"
               /\ events' = Append(events, "config")
               /\ UNCHANGED failure
          ELSE Fails("config") /\ UNCHANGED events
    /\ UNCHANGED <<conf, env, nwaits, last_wait, rres, ing_pc, conns, hserve, hconns>>

\* launch(): enclave::bootstrap(nsm).await?, unless --no-bootstrap
Bootstrap ==
    /\ lpc = "bootstrap"
    /\ IF conf.no_bootstrap
       THEN lpc' = "egress" /\ UNCHANGED <<events, failure>>
       ELSE \E ok \in BOOLEAN :
               IF ok
               THEN /\ lpc' = "egress"
                    /\ events' = Append(events, "bootstrap")
                    /\ UNCHANGED failure
               ELSE Fails("bootstrap") /\ UNCHANGED events
    /\ UNCHANGED <<conf, env, nwaits, last_wait, rres, ing_pc, conns, hserve, hconns>>

\* launch(): EgressService::start(&config).await?
EgressServiceStart ==
    /\ lpc = "egress"
    /\ IF is_enabled(conf)
       THEN /\ env' = set_proxy_env_var(env, "http://127.0.0.1:" \o ToString(proxy_port(conf)))
            /\ \E bound \in BOOLEAN :
                  IF bound
                  THEN /\ lpc' = "ingress"
                       /\ events' = Append(events, "egress.start")
                       /\ UNCHANGED failure
                  ELSE Fails("egress") /\ UNCHANGED events
       ELSE /\ lpc' = "ingress"
            /\ events' = Append(events, "egress.start")
            /\ UNCHANGED <<env, failure>>
    /\ UNCHANGED <<conf, nwaits, last_wait, rres, ing_pc, conns, hserve, hconns>>

\* launch(): IngressService::start(&config)?
IngressServiceStart ==
    /\ lpc = "ingress"
    /\ \E bound \in BOOLEAN :
          IF bound \/ conf.listeners = 0
          THEN /\ lpc' = "kms"
               /\ events' = Append(events, "ingress.start")
               /\ ing_pc' = IF conf.listeners = 0 THEN "off" ELSE "serving"
               /\ UNCHANGED failure
          ELSE Fails("ingress") /\ UNCHANGED <<events, ing_pc>>
    /\ UNCHANGED <<conf, env, nwaits, last_wait, rres, conns, hserve, hconns>>

\* launch(): KmsProxyService::start(config, nsm).await?
KmsProxyServiceStart ==
    /\ lpc = "kms"
    /\ IF conf.kms_proxy # NoPort
       THEN \E ok \in BOOLEAN :
               IF ok /\ is_enabled(conf)
               THEN /\ lpc' = "api"
                    /\ events' = Append(events, "kms.start")
                    /\ env' = [env EXCEPT !["AWS_KMS_ENDPOINT"] =
                                        "http://127.0.0.1:" \o ToString(conf.kms_proxy)]
                    /\ UNCHANGED failure
               ELSE Fails("kms") /\ UNCHANGED <<events, env>>
       ELSE /\ lpc' = "api"
            /\ events' = Append(events, "kms.start")
            /\ UNCHANGED <<env, failure>>
    /\ UNCHANGED <<conf, nwaits, last_wait, rres, ing_pc, conns, hserve, hconns>>

\* launch(): ApiService::start(&config, nsm).await?
ApiServiceStart ==
    /\ lpc = "api"
    /\ \E bound \in BOOLEAN :
          IF bound \/ conf.api = NoPort
          THEN /\ lpc' = "spawn"
               /\ events' = Append(events, "api.start")
               /\ UNCHANGED failure
          ELSE Fails("api") /\ UNCHANGED events
    /\ UNCHANGED <<conf, env, nwaits, last_wait, rres, ing_pc, conns, hserve, hconns>>

\* launch(): launcher::start_child; run_child's Command::spawn() succeeds
StartChild ==
    /\ lpc = "spawn"
    /\ SupSpawnChild
    /\ lpc' = "reap"
    /\ events' = Append(events, "spawn")
    /\ UNCHANGED <<conf, env, failure, nwaits, last_wait, rres, ing_pc, conns, hserve,
                   hconns>>

\* run_child: Command::spawn()? fails, start_child(..).await?? returns it
StartChildFails ==
    /\ lpc = "spawn"
    /\ Fails("spawn")
    /\ UNCHANGED <<conf, events, env, nwaits, last_wait, rres, ing_pc, conns, hserve,
                   hconns>>

\* no more turns of the loop than MaxWaits before the child is reported
EndsReap(ws) == ws.ws = "Err" \/ (ws.ws \in {"Exited", "Signaled"} /\ ws.pid = Sentinel)

\* reap: one waitpid and the match on what it gave; when reap returns,
\* start_child(..).await?? gives launch() the status or the error
Waitpid ==
    /\ lpc = "reap"
    /\ \E ws \in WaitStatuses :
          /\ nwaits < MaxWaits \/ EndsReap(ws)
          /\ last_wait' = ws
          /\ nwaits' = nwaits + 1
          /\ rres' = reap(Sentinel, ws)
          /\ CASE reap(Sentinel, ws).kind = "pending" ->
                    UNCHANGED <<lpc, failure, events>>
               [] reap(Sentinel, ws).kind = "Ok" ->
                    /\ lpc' = "stop_api"
                    /\ events' = Append(events, "child.exit")
                    /\ UNCHANGED failure
               [] reap(Sentinel, ws).kind = "Err" ->
                    Fails("reap") /\ UNCHANGED events
    /\ UNCHANGED <<conf, env, ing_pc, conns, hserve, hconns>>

\* launch(): api.stop().await
ApiServiceStop ==
    /\ lpc = "stop_api"
    /\ lpc' = "stop_kms"
    /\ events' = Append(events, "api.stop")
    /\ UNCHANGED <<conf, env, failure, nwaits, last_wait, rres, ing_pc, conns, hserve,
                   hconns>>

\* launch(): kms_proxy.stop().await
KmsProxyServiceStop ==
    /\ lpc = "stop_kms"
    /\ lpc' = "stop_ingress"
    /\ events' = Append(events, "kms.stop")
    /\ UNCHANGED <<conf, env, failure, nwaits, last_wait, rres, ing_pc, conns, hserve,
                   hconns>>

\* IngressService::stop: self.shutdown.send(())
IngressServiceStop ==
    /\ lpc = "stop_ingress"
    /\ lpc' = "join_ingress"
    /\ events' = Append(events, "ingress.stop")
    /\ ing_pc' = IF ing_pc = "serving" THEN "signalled" ELSE ing_pc
    /\ UNCHANGED <<conf, env, failure, nwaits, last_wait, rres, conns, hserve, hconns>>

\* a mutant of IngressService::stop: the proxies are not awaited
IngressServiceStopped_NoWait ==
    /\ lpc = "join_ingress"
    /\ lpc' = "stop_egress"
    /\ events' = Append(events, "ingress.stopped")
    /\ UNCHANGED <<conf, env, failure, nwaits, last_wait, rres, ing_pc, conns, hserve,
                   hconns>>

\* IngressService::stop: p.await returned for every proxy
IngressServiceStopped ==
    /\ lpc = "join_ingress"
    /\ ing_pc \in {"off", "done"}
    /\ lpc' = "stop_egress"
    /\ events' = Append(events, "ingress.stopped")
    /\ UNCHANGED <<conf, env, failure, nwaits, last_wait, rres, ing_pc, conns, hserve,
                   hconns>>

\* launch(): egress.stop().await, and Ok(exit_status)
EgressServiceStop ==
    /\ lpc = "stop_egress"
    /\ lpc' = "ok"
    /\ events' = Append(events, "egress.stop")
    /\ UNCHANGED <<conf, env, failure, nwaits, last_wait, rres, ing_pc, conns, hserve,
                   hconns>>

\* run(): launch returned Ok(exit_status): app_status.exited(exit_status)
RunExited ==
    /\ lpc = "ok"
    /\ SupChildExited
    /\ status' = Exited(rres.exit_status)
    /\ lpc' = "done"
    /\ UNCHANGED <<conf, events, env, failure, nwaits, last_wait, rres, ing_pc, conns,
                   hserve, hconns>>

\* run(): launch returned Err(err): app_status.fatal(err.to_string())
RunFatal ==
    /\ lpc = "err"
    /\ SupLaunchErr
    /\ lpc' = "done"
    /\ UNCHANGED <<conf, events, env, failure, nwaits, last_wait, rres, ing_pc, conns,
                   hserve, hconns>>

\* EnclaveProxy::serve: a stream comes in and its service_conn is spawned;
\* service_conn splices it unless the application refuses the connection
EnclaveProxyAccept(c) ==
    /\ ing_pc \in {"serving", "signalled"}
    /\ hconns[c] = "spliced"
    /\ conns[c] = "none"
    /\ \E connected \in BOOLEAN :
          conns' = [conns EXCEPT ![c] = IF connected THEN "spliced" ELSE "done"]
    /\ UNCHANGED <<conf, lpc, events, env, failure, nwaits, last_wait, rres, ing_pc,
                   hserve, hconns>>

\* EnclaveProxy::service_conn: copy_bidirectional returns, an end has closed
EnclaveProxyConnEnds(c) ==
    /\ conns[c] = "spliced"
    /\ conns' = [conns EXCEPT ![c] = "done"]
    /\ UNCHANGED <<conf, lpc, events, env, failure, nwaits, last_wait, rres, ing_pc,
                   hserve, hconns>>

\* EnclaveProxy::serve: shutdown.changed() is taken, the loop breaks
EnclaveProxyShutdown ==
    /\ ing_pc = "signalled"
    /\ ing_pc' = "joining"
    /\ UNCHANGED <<conf, lpc, events, env, failure, nwaits, last_wait, rres, conns,
                   hserve, hconns>>

\* EnclaveProxy::serve: join_all(proxies).await returns
EnclaveProxyJoined ==
    /\ ing_pc = "joining"
    /\ \A c \in Conns : conns[c] # "spliced"
    /\ ing_pc' = "done"
    /\ UNCHANGED <<conf, lpc, events, env, failure, nwaits, last_wait, rres, conns,
                   hserve, hconns>>

\* the runner: start_ingress_proxies spawns HostProxy::serve
HostProxyServe ==
    /\ hserve = "off"
    /\ hserve' = "serving"
    /\ UNCHANGED <<conf, lpc, events, env, failure, nwaits, last_wait, rres, ing_pc,
                   conns, hconns>>

\* HostProxy::serve: a connection is accepted and its service_conn spawned,
\* detached; service_conn splices it when it reaches the enclave's port
HostProxyAccept(c) ==
    /\ hserve = "serving"
    /\ hconns[c] = "none"
    /\ \E connected \in BOOLEAN :
          hconns' = [hconns EXCEPT ![c] = IF connected THEN "spliced" ELSE "done"]
    /\ UNCHANGED <<conf, lpc, events, env, failure, nwaits, last_wait, rres, ing_pc,
                   conns, hserve>>

\* HostProxy::service_conn: copy_bidirectional returns, an end has closed
HostProxyConnEnds(c) ==
    /\ hconns[c] = "spliced"
    /\ hconns' = [hconns EXCEPT ![c] = "done"]
    /\ UNCHANGED <<conf, lpc, events, env, failure, nwaits, last_wait, rres, ing_pc,
                   conns, hserve>>

\* the runner's cleanup: task.abort() and task.await for the serve task
HostProxyAborted ==
    /\ hserve = "serving"
    /\ hserve' = "aborted"
    /\ UNCHANGED <<conf, lpc, events, env, failure, nwaits, last_wait, rres, ing_pc,
                   conns, hconns>>

(***************************************************************************)
(* The KMS proxy (src/enclaver/src/proxy/kms.rs): one request from its     *)
(* arrival to the request sent to KMS or the response made by the proxy.   *)
(***************************************************************************)
\* const ATTESTING_ACTIONS
ATTESTING_ACTIONS ==
    {"TrentService.Decrypt", "TrentService.GenerateDataKey", "TrentService.GenerateRandom"}

\* a header value that is not visible ASCII: HeaderValue::to_str fails on it
OpaqueTarget == "<opaque>"
NoTarget == "<none>"
KmsTargets ==
    {NoTarget, OpaqueTarget,
     "TrentService.Decrypt", "TrentService.GenerateDataKey",
     "TrentService.GenerateDataKeyPair", "TrentService.GenerateRandom",
     "TrentService.DeriveSharedSecret", "TrentService.Encrypt",
     "trentservice.decrypt"}

\* the service of the request's SigV4 credential scope, if it has one
NoScope == "<none>"
KmsRequests ==
    [method : {"GET", "POST"}, path : {"/", "/other"}, target : KmsTargets,
     scope : {NoScope, "kms", "s3"}, json_body : BOOLEAN]

\* str::eq_ignore_ascii_case on the header values of the model
eq_ignore_ascii_case(a, action) ==
    \/ a = action
    \/ a = "TrentService.Decrypt" /\ action = "trentservice.decrypt"

\* KmsRequestIncoming::is_attesting_action; target.to_str().unwrap() panics
\* on a value that is not visible ASCII
is_attesting_action(req) ==
    IF req.method = "POST" /\ req.path = "/" /\ req.target # NoTarget
    THEN IF req.target = OpaqueTarget
         THEN "panic"
         ELSE IF \E a \in ATTESTING_ACTIONS : eq_ignore_ascii_case(a, req.target)
              THEN "true" ELSE "false"
    ELSE "false"

NoOutgoing == [method |-> "", path |-> "", target |-> NoTarget, recipient |-> FALSE]
internal_srv_err(msg) == [status |-> 500, body |-> msg]
\* the response of KMS, handed back by the proxy
FromKms == [status |-> 200, body |-> "kms"]

\* the proxy's side of the variables shared with the other services
KmsIdle ==
    /\ kms_req = [method |-> "GET", path |-> "/", target |-> NoTarget, scope |-> NoScope,
                  json_body |-> FALSE]
    /\ kms_pc = "recv"
    /\ kms_out = NoOutgoing
    /\ kms_resp = NoResponse

KmsInit ==
    /\ kms_req \in KmsRequests
    /\ kms_pc = "recv"
    /\ kms_out = NoOutgoing
    /\ kms_resp = NoResponse

\* KmsProxyHandler::handle: the choice of the path
KmsHandle ==
    /\ kms_pc = "recv"
    /\ kms_pc' = CASE is_attesting_action(kms_req) = "true" -> "attesting"
                   [] is_attesting_action(kms_req) = "false" -> "forwarding"
                   [] OTHER -> "panicked"
    /\ UNCHANGED <<kms_req, kms_out, kms_resp>>

\* CredentialScope::from_request and validate, as both paths call them
CredentialError(req) ==
    CASE req.scope = NoScope -> "No AWS SigV4 found in the request"
      [] req.scope # "kms" -> "Received request signed for a non-KMS service"
      [] OTHER -> ""

\* handle_attesting_action, its errors turned into a 500 by handle
KmsAttestingAction ==
    /\ kms_pc = "attesting"
    /\ kms_pc' = "attested"
    /\ \E attested \in BOOLEAN :
         LET err == CASE CredentialError(kms_req) # "" -> CredentialError(kms_req)
                      [] ~kms_req.json_body -> "body is not JSON"
                      [] ~attested -> "attestation failed"
                      [] OTHER -> ""
         IN IF err # ""
            THEN /\ kms_resp' = internal_srv_err(err)
                 /\ kms_out' = kms_out
            ELSE /\ kms_out' = [method |-> "POST", path |-> "/", target |-> kms_req.target,
                               recipient |-> TRUE]
                 /\ kms_resp' = FromKms
    /\ UNCHANGED kms_req

\* handle_forward, its errors turned into a 500 by handle
KmsForward ==
    /\ kms_pc = "forwarding"
    /\ kms_pc' = "forwarded"
    /\ LET err == CASE CredentialError(kms_req) # "" -> CredentialError(kms_req)
                    [] kms_req.target = NoTarget -> "KMS Action is missing"
                    [] OTHER -> ""
       IN IF err # ""
          THEN /\ kms_resp' = internal_srv_err(err)
               /\ kms_out' = kms_out
          ELSE /\ kms_out' = [method |-> kms_req.method, path |-> kms_req.path,
                             target |-> kms_req.target, recipient |-> FALSE]
               /\ kms_resp' = FromKms
    /\ UNCHANGED kms_req

(***************************************************************************)
(* The attestation API (src/enclaver/src/api.rs) behind HttpServer::serve  *)
(* (src/enclaver/src/http_util.rs): one request on one connection.         *)
(***************************************************************************)
\* a field of the AttestationRequest in the body: left out, a string that
\* decodes, a value that is not a string, a string that does not decode
FieldKinds == {"absent", "good", "mistyped", "undecodable"}

\* the bodies: text that is not JSON, or an object with the three fields
NotJson == [json |-> FALSE, nonce |-> "absent", public_key |-> "absent", user_data |-> "absent"]
ApiBodies ==
    {NotJson} \cup [json : {TRUE}, nonce : FieldKinds, public_key : FieldKinds,
                    user_data : FieldKinds]

ApiRequests == [method : {"GET", "POST"}, path : {"/v1/attestation", "/v1/other"},
                body : ApiBodies]

\* the attestation documents of the provider
Docs == {"", "doc1", "doc2"}

\* serde_json::from_slice::<AttestationRequest> succeeds
ParsesAsRequest(body) ==
    /\ body.json
    /\ \A f \in {"nonce", "public_key", "user_data"} : body[f] # "mistyped"

\* AttestationRequest::into_params succeeds: base64::decode, pem_decode
DecodesToParams(body) ==
    \A f \in {"nonce", "public_key", "user_data"} : body[f] # "undecodable"

method_not_allowed == [status |-> 405, body |-> ""]
not_found == [status |-> 404, body |-> ""]

\* what ApiHandler::handle returns: Ok(response) or Err
HandlerOk(resp) == [kind |-> "Ok", resp |-> resp]
HandlerErr == [kind |-> "Err", resp |-> NoResponse]

\* ApiHandler::handle_attestation for a provider that answers provided:
\* a document, or "Err"
handle_attestation(body, provided) ==
    IF ~ParsesAsRequest(body) THEN HandlerOk(bad_request("serde_json"))
    ELSE IF ~DecodesToParams(body) THEN HandlerOk(bad_request("decode"))
    ELSE IF provided = "Err" THEN HandlerErr
    ELSE HandlerOk([status |-> 200, body |-> provided])

\* ApiHandler::handle_request
handle_request(req, provided) ==
    IF req.path = "/v1/attestation"
    THEN IF req.method = "POST"
         THEN handle_attestation(req.body, provided)
         ELSE HandlerOk(method_not_allowed)
    ELSE HandlerOk(not_found)

ApiIdle ==
    /\ api_req = [method |-> "GET", path |-> "/v1/other", body |-> NotJson]
    /\ api_pc = "recv"
    /\ api_provided = "none"
    /\ api_resp = NoResponse

ApiInit ==
    /\ api_req \in ApiRequests
    /\ api_pc = "recv"
    /\ api_provided = "none"
    /\ api_resp = NoResponse

\* HttpServer::serve's service_fn for one request: the handler's response is
\* written to the connection; when the handler returns Err no response is
\* made and serve_connection ends with the error
ApiServe ==
    /\ api_pc = "recv"
    /\ \E provided \in Docs \cup {"Err"} :
         LET res == handle_request(api_req, provided)
         IN /\ api_provided' =
                  IF api_req.path = "/v1/attestation" /\ api_req.method = "POST"
                     /\ ParsesAsRequest(api_req.body) /\ DecodesToParams(api_req.body)
                  THEN provided ELSE "none"
            /\ api_resp' = res.resp
            /\ api_pc' = IF res.kind = "Ok" THEN "responded" ELSE "error"
    /\ UNCHANGED api_req

\* the connection's task after the error: eprintln!, the connection is dropped
ApiConnectionDropped ==
    /\ api_pc = "error"
    /\ api_pc' = "closed"
    /\ UNCHANGED <<api_req, api_provided, api_resp>>

(***************************************************************************)
(* JsonTransport (src/enclaver/src/proxy/egress_http.rs): one message      *)
(* framed by send and read back by recv. A text is held as its length, the *)
(* JSON of a message as the message and the number of its bytes.           *)
(***************************************************************************)
\* lengths of host names and error messages: short ones, and the ones that
\* bring the JSON to the limit of the 2 byte length
TextLens == (1..3) \cup ((MaxTextLen - 3)..MaxTextLen)

FrameRequest(host_len, port) == [type |-> "ConnectRequest", host_len |-> host_len, port |-> port]
FrameOk == [type |-> "ConnectResponse", variant |-> "Ok"]
FrameErr(os_code, message_len) ==
    [type |-> "ConnectResponse", variant |-> "Err", os_code |-> os_code,
     message_len |-> message_len]
NoFrame == [type |-> "none"]

FrameMessages ==
    {FrameRequest(n, p) : n \in TextLens, p \in {80, 443, 8443}}
    \cup {FrameOk}
    \cup {FrameErr(c, n) : c \in {0, 111}, n \in TextLens}

\* the decimal digits of a number below 100000
Digits(n) ==
    IF n < 10 THEN 1 ELSE IF n < 100 THEN 2 ELSE IF n < 1000 THEN 3 ELSE IF n < 10000 THEN 4
    ELSE 5

\* serde_json::to_vec: the number of bytes of the JSON text
\*   {"host":"...","port":N}   "Ok"   {"Err":{"os_code":N,"message":"..."}}
JsonLen(m) ==
    IF m.type = "ConnectRequest" THEN 9 + m.host_len + 9 + Digits(m.port) + 1
    ELSE IF m.variant = "Ok" THEN 4
    ELSE 18 + Digits(m.os_code) + 12 + m.message_len + 3

\* msg.len() as u16
as_u16(n) == n % 65536

\* len.to_le_bytes() and u16::from_le_bytes
to_le_bytes(len) == <<len % 256, len \div 256>>
from_le_bytes(len_buf) == len_buf[1] + 256 * len_buf[2]

NoWire == [len_buf |-> <<0, 0>>, json |-> NoFrame, bytes |-> 0]

FrameIdle ==
    /\ frame_msg = NoFrame
    /\ frame_pc = "new"
    /\ wire = NoWire
    /\ recv_len = 0
    /\ consumed = 0
    /\ received = [kind |-> "none"]

FrameInit ==
    /\ frame_msg \in FrameMessages
    /\ frame_pc = "new"
    /\ wire = NoWire
    /\ recv_len = 0
    /\ consumed = 0
    /\ received = [kind |-> "none"]

\* JsonTransport::send: the packet is the length and the JSON text
FrameSend ==
    /\ frame_pc = "new"
    /\ frame_pc' = "sent"
    /\ wire' = [len_buf |-> to_le_bytes(as_u16(JsonLen(frame_msg))), json |-> frame_msg,
                bytes |-> JsonLen(frame_msg)]
    /\ UNCHANGED <<frame_msg, recv_len, consumed, received>>

\* JsonTransport::recv: read_exact(&mut len_buf), from_le_bytes
FrameRecvLen ==
    /\ frame_pc = "sent"
    /\ frame_pc' = "len"
    /\ recv_len' = from_le_bytes(wire.len_buf)
    /\ consumed' = 2
    /\ UNCHANGED <<frame_msg, wire, received>>

\* JsonTransport::recv: read_exact(&mut msg) and serde_json::from_slice; the
\* first len bytes of a JSON text are a JSON text only when they are all of it
FrameRecvMsg ==
    /\ frame_pc = "len"
    /\ frame_pc' = "received"
    /\ IF recv_len > wire.bytes
       THEN /\ consumed' = consumed + wire.bytes
            /\ received' = [kind |-> "Err", why |-> "eof"]
       ELSE /\ consumed' = consumed + recv_len
            /\ received' = IF recv_len = wire.bytes
                           THEN [kind |-> "Ok", msg |-> wire.json]
                           ELSE [kind |-> "Err", why |-> "json"]
    /\ UNCHANGED <<frame_msg, wire, recv_len>>

\* nothing of the three services has happened
SvcIdle == KmsIdle /\ ApiIdle /\ FrameIdle

Init ==
    /\ LogInit /\ StatusInit /\ RunnerInit(DefaultOpts) /\ DialInit /\ SvcIdle /\ EgressIdle
    /\ PolicyIdle /\ LaunchIdle

Next ==
    \/ LogAppend /\ UNCHANGED exceptLog
    \/ \E r \in Readers : Connect(r) /\ UNCHANGED exceptLog
    \/ \E r \in Readers : Read(r) /\ UNCHANGED exceptLog
    \/ \E r \in Readers : ReadHangup(r) /\ UNCHANGED exceptLog
    \/ \E r \in Readers : Changed(r) /\ UNCHANGED exceptLog

Spec == Init /\ [][Next]_vars

\* tokio runs a stream task that is ready, and the subscriber's socket takes
\* the bytes unless the subscriber hangs up
FairLog ==
    /\ Spec
    /\ \A r \in Readers :
          /\ WF_vars(Read(r) /\ UNCHANGED exceptLog)
          /\ WF_vars(Changed(r) /\ UNCHANGED exceptLog)

(***************************************************************************)
(* SpecAppend: the application log where append is also called with more   *)
(* bytes than the ring holds.                                              *)
(***************************************************************************)
AppendNext ==
    \/ (\E n \in 0..(Cap + 1) : AppendData(n)) /\ UNCHANGED exceptLog
    \/ (\E n \in 0..(Cap + 1) : AppendPanics(n)) /\ UNCHANGED exceptLog
    \/ \E r \in Readers : LockPoisoned(r) /\ UNCHANGED exceptLog
    \/ \E r \in Readers : Connect(r) /\ UNCHANGED exceptLog
    \/ \E r \in Readers : Read(r) /\ UNCHANGED exceptLog
    \/ \E r \in Readers : ReadHangup(r) /\ UNCHANGED exceptLog
    \/ \E r \in Readers : Changed(r) /\ UNCHANGED exceptLog

SpecAppend == Init /\ [][AppendNext]_vars

StatusNext ==
    \/ SupStartServing /\ UNCHANGED exceptStatus
    \/ SupConsoleReady /\ UNCHANGED exceptStatus
    \/ SupRedirectFailed /\ UNCHANGED exceptStatus
    \/ SupSpawnChild /\ UNCHANGED exceptStatus
    \/ SupLaunchErr /\ UNCHANGED exceptStatus
    \/ SupChildExited /\ UNCHANGED exceptStatus
    \/ SupStatusTaskErr /\ UNCHANGED exceptStatus
    \/ \E s \in Subscribers : StreamStart(s) /\ UNCHANGED exceptStatus
    \/ \E s \in Subscribers : StreamReadStatus(s) /\ UNCHANGED exceptStatus
    \/ \E s \in Subscribers : StreamWrite(s) /\ UNCHANGED exceptStatus
    \/ \E s \in Subscribers : StreamChanged(s) /\ UNCHANGED exceptStatus

SpecStatus == Init /\ [][StatusNext]_vars

(***************************************************************************)
(* SpecHangup: the status cell with subscribers that hang up.              *)
(***************************************************************************)
HangupNext ==
    \/ StatusNext
    \/ \E s \in Subscribers : StreamPeerGone(s) /\ UNCHANGED exceptPeer

SpecHangup == Init /\ [][HangupNext]_vars

\* tokio runs every spawned stream task that is ready
FairStatus ==
    /\ SpecStatus
    /\ \A s \in Subscribers :
          /\ WF_vars(StreamReadStatus(s) /\ UNCHANGED exceptStatus)
          /\ WF_vars(StreamWrite(s) /\ UNCHANGED exceptStatus)
          /\ WF_vars(StreamChanged(s) /\ UNCHANGED exceptStatus)

(***************************************************************************)
(* SpecRun: the runner and the enclave it started. The supervisor in the   *)
(* enclave takes steps while the enclave runs; the runner's connection to  *)
(* the status port is the supervisor's subscriber RunnerSub.               *)
(***************************************************************************)
InitRun ==
    /\ LogInit /\ StatusInit /\ DialInit /\ SvcIdle /\ EgressIdle /\ PolicyIdle /\ LaunchIdle
    /\ \E opts \in Opts : RunnerInit(opts)

EnclaveRunning == enclave = "running"

RunNext ==
    \/ StartEgressProxy /\ UNCHANGED exceptRun
    \/ RunEnclave /\ UNCHANGED exceptRun
    \/ AttachDebugConsole /\ UNCHANGED exceptRun
    \/ StartOdynLogStream /\ UNCHANGED exceptRun
    \/ StartIngressProxies /\ UNCHANGED exceptRun
    \/ StatusConnectFail /\ UNCHANGED exceptRun
    \/ StatusConnect /\ UNCHANGED exceptRunStatus
    \/ StatusReadLine /\ UNCHANGED exceptRun
    \/ StatusPortClosed /\ UNCHANGED exceptRun
    \/ SelectCancelled /\ UNCHANGED exceptRun
    \/ Cleanup /\ UNCHANGED exceptRun
    \/ MainReport /\ UNCHANGED exceptRun
    \/ Signal /\ UNCHANGED exceptRun
    \/ ShutdownHandler /\ UNCHANGED exceptRun
    \/ EnclaveRunning /\ SupStartServing /\ UNCHANGED exceptStatus
    \/ EnclaveRunning /\ SupConsoleReady /\ UNCHANGED exceptStatus
    \/ EnclaveRunning /\ SupRedirectFailed /\ UNCHANGED exceptStatus
    \/ EnclaveRunning /\ SupSpawnChild /\ UNCHANGED exceptStatus
    \/ EnclaveRunning /\ SupLaunchErr /\ UNCHANGED exceptStatus
    \/ EnclaveRunning /\ SupChildExited /\ UNCHANGED exceptStatus
    \/ EnclaveRunning /\ SupStatusTaskErr /\ UNCHANGED exceptStatus
    \/ EnclaveRunning /\ StreamReadStatus(RunnerSub) /\ UNCHANGED exceptStatus
    \/ EnclaveRunning /\ StreamWrite(RunnerSub) /\ UNCHANGED exceptStatus
    \/ EnclaveRunning /\ StreamChanged(RunnerSub) /\ UNCHANGED exceptStatus

SpecRun == InitRun /\ [][RunNext]_vars

(***************************************************************************)
(* SpecReport: the exit code as a function of what Enclave::run returned.  *)
(***************************************************************************)
ReportCodes == (-CodeSpan..CodeSpan) \cup {-2147483647 - 1, 2147483647}
ReportInputs ==
    {ExitedWith(c) : c \in ReportCodes}
        \cup {SignaledWith(n) : n \in JsonNumbers}
        \cup {FatalWith(e) : e \in Errors}
        \cup {Cancelled, Err("status port")}

InitReport ==
    /\ LogInit /\ StatusInit /\ DialInit /\ SvcIdle /\ EgressIdle /\ PolicyIdle /\ LaunchIdle
    /\ \E res \in ReportInputs :
          /\ run_res = res
          /\ exit_res = res
    /\ args = DefaultOpts
    /\ rpc = "returned"
    /\ enclave_info = "Some"
    /\ enclave = "terminated"
    /\ tool = <<"run-enclave", "terminate-enclave">>
    /\ tasks = <<>>
    /\ teardown = <<"terminate_enclave", "abort">>
    /\ failed_attempts = 0
    /\ conn = FALSE
    /\ rd = 0
    /\ shutdown_signal = FALSE
    /\ cancelled = FALSE
    /\ sig_at = "never"
    /\ exit_code = <<>>

ReportNext == MainReport /\ UNCHANGED exceptRun

SpecReport == InitReport /\ [][ReportNext]_vars

(***************************************************************************)
(* SpecLogDial: the log stream task of the runner.                         *)
(***************************************************************************)
LogDialNext ==
    \/ LogPortBound /\ UNCHANGED exceptDial
    \/ LogDialFail /\ UNCHANGED exceptDial
    \/ LogDialRetry /\ UNCHANGED exceptDial
    \/ LogDialConnected /\ UNCHANGED exceptDial
    \/ LogStreamEnds /\ UNCHANGED exceptDial
    \/ LogTaskAborted /\ UNCHANGED exceptDial

SpecLogDial == Init /\ [][LogDialNext]_vars

(***************************************************************************)
(* SpecEgress: one request to the proxy in the enclave, with the host side *)
(* of the stream it opens.                                                 *)
(***************************************************************************)
InitEgress ==
    /\ LogInit /\ StatusInit /\ RunnerInit(DefaultOpts) /\ DialInit /\ SvcIdle /\ PolicyIdle
    /\ LaunchIdle
    /\ EgressInit

EgressNext ==
    \/ ProxyRequest /\ UNCHANGED exceptEgress
    \/ RemoteConnectDial /\ UNCHANGED exceptEgress
    \/ RemoteConnectSend /\ UNCHANGED exceptEgress
    \/ RemoteConnectRecv /\ UNCHANGED exceptEgress
    \/ RemoteConnectRecvFail /\ UNCHANGED exceptEgress
    \/ TunnelWrite /\ UNCHANGED exceptEgress
    \/ TunnelRead /\ UNCHANGED exceptEgress
    \/ TunnelClose /\ UNCHANGED exceptEgress
    \/ HostAccept /\ UNCHANGED exceptEgress
    \/ HostRecv /\ UNCHANGED exceptEgress
    \/ HostRecvFail /\ UNCHANGED exceptEgress
    \/ HostConnect /\ UNCHANGED exceptEgress
    \/ HostSendOk /\ UNCHANGED exceptEgress
    \/ HostSendErr /\ UNCHANGED exceptEgress
    \/ HostSpliceToVsock /\ UNCHANGED exceptEgress
    \/ HostSpliceFromVsock /\ UNCHANGED exceptEgress
    \/ HostSpliceEnd /\ UNCHANGED exceptEgress

SpecEgress == InitEgress /\ [][EgressNext]_vars

(***************************************************************************)
(* SpecPolicy: a policy is built from an egress section and asked about a  *)
(* host. SpecPattern: a domain pattern is matched against a domain.        *)
(***************************************************************************)
InitPolicy ==
    /\ LogInit /\ StatusInit /\ RunnerInit(DefaultOpts) /\ DialInit /\ SvcIdle /\ EgressIdle
    /\ LaunchIdle
    /\ egress_spec \in EgressSpecs
    /\ built = EgressPolicyNew([allow |-> None, deny |-> None])
    /\ asked = NoHost
    /\ allowed = FALSE
    /\ pat_in = <<>>
    /\ dom_in = <<>>
    /\ matched = FALSE
    /\ pol_pc = "new"

PolicyNext ==
    \/ NewPolicy /\ UNCHANGED exceptPolicy
    \/ IsHostAllowed /\ UNCHANGED exceptPolicy

SpecPolicy == InitPolicy /\ [][PolicyNext]_vars

InitPattern ==
    /\ LogInit /\ StatusInit /\ RunnerInit(DefaultOpts) /\ DialInit /\ SvcIdle /\ EgressIdle
    /\ LaunchIdle
    /\ egress_spec = [allow |-> None, deny |-> None]
    /\ built = EgressPolicyNew([allow |-> None, deny |-> None])
    /\ asked = NoHost
    /\ allowed = FALSE
    /\ pat_in \in PatternTexts
    /\ dom_in \in DomainTexts
    /\ matched = FALSE
    /\ pol_pc = "new"

PatternNext == MatchPattern /\ UNCHANGED exceptPolicy

SpecPattern == InitPattern /\ [][PatternNext]_vars

(***************************************************************************)
(* SpecLaunch: the supervisor from its start to the status it records,     *)
(* with the ingress bridge. FairLaunch: the same, where the supervisor's   *)
(* own tasks keep running; what the clients of the bridge and the child    *)
(* do is up to them.                                                       *)
(***************************************************************************)
InitLaunch ==
    /\ LogInit /\ StatusInit /\ RunnerInit(DefaultOpts) /\ DialInit /\ SvcIdle /\ EgressIdle
    /\ PolicyIdle
    /\ LaunchInit

LaunchNext ==
    \/ RunStartStatus /\ UNCHANGED exceptStatusLaunch
    \/ RunStartLog /\ UNCHANGED exceptStatusLaunch
    \/ RunRedirectFails /\ UNCHANGED exceptStatusLaunch
    \/ LoadConfiguration /\ UNCHANGED exceptLaunch
    \/ Bootstrap /\ UNCHANGED exceptLaunch
    \/ EgressServiceStart /\ UNCHANGED exceptLaunch
    \/ IngressServiceStart /\ UNCHANGED exceptLaunch
    \/ KmsProxyServiceStart /\ UNCHANGED exceptLaunch
    \/ ApiServiceStart /\ UNCHANGED exceptLaunch
    \/ StartChild /\ UNCHANGED exceptStatusLaunch
    \/ StartChildFails /\ UNCHANGED exceptLaunch
    \/ Waitpid /\ UNCHANGED exceptLaunch
    \/ ApiServiceStop /\ UNCHANGED exceptLaunch
    \/ KmsProxyServiceStop /\ UNCHANGED exceptLaunch
    \/ IngressServiceStop /\ UNCHANGED exceptLaunch
    \/ IngressServiceStopped /\ UNCHANGED exceptLaunch
    \/ EgressServiceStop /\ UNCHANGED exceptLaunch
    \/ RunExited /\ UNCHANGED exceptStatusLaunch
    \/ RunFatal /\ UNCHANGED exceptStatusLaunch
    \/ \E c \in Conns : EnclaveProxyAccept(c) /\ UNCHANGED exceptLaunch
    \/ \E c \in Conns : EnclaveProxyConnEnds(c) /\ UNCHANGED exceptLaunch
    \/ EnclaveProxyShutdown /\ UNCHANGED exceptLaunch
    \/ EnclaveProxyJoined /\ UNCHANGED exceptLaunch
    \/ HostProxyServe /\ UNCHANGED exceptLaunch
    \/ \E c \in Conns : HostProxyAccept(c) /\ UNCHANGED exceptLaunch
    \/ \E c \in Conns : HostProxyConnEnds(c) /\ UNCHANGED exceptLaunch
    \/ HostProxyAborted /\ UNCHANGED exceptLaunch

SpecLaunch == InitLaunch /\ [][LaunchNext]_vars

\* tokio runs launch() and the serve tasks whenever they can take a step
FairLaunch ==
    /\ SpecLaunch
    /\ WF_vars(ApiServiceStop /\ UNCHANGED exceptLaunch)
    /\ WF_vars(KmsProxyServiceStop /\ UNCHANGED exceptLaunch)
    /\ WF_vars(IngressServiceStop /\ UNCHANGED exceptLaunch)
    /\ WF_vars(IngressServiceStopped /\ UNCHANGED exceptLaunch)
    /\ WF_vars(EgressServiceStop /\ UNCHANGED exceptLaunch)
    /\ WF_vars(RunExited /\ UNCHANGED exceptStatusLaunch)
    /\ WF_vars(RunFatal /\ UNCHANGED exceptStatusLaunch)
    /\ WF_vars(EnclaveProxyShutdown /\ UNCHANGED exceptLaunch)
    /\ WF_vars(EnclaveProxyJoined /\ UNCHANGED exceptLaunch)

(***************************************************************************)
(* SpecKms: one request to the KMS proxy. SpecApi: one request to the      *)
(* attestation API. SpecFrame: one message through JsonTransport.          *)
(***************************************************************************)
InitKms ==
    /\ LogInit /\ StatusInit /\ RunnerInit(DefaultOpts) /\ DialInit /\ EgressIdle
    /\ PolicyIdle /\ LaunchIdle
    /\ KmsInit /\ ApiIdle /\ FrameIdle

KmsNext ==
    \/ KmsHandle /\ UNCHANGED exceptKms
    \/ KmsAttestingAction /\ UNCHANGED exceptKms
    \/ KmsForward /\ UNCHANGED exceptKms

SpecKms == InitKms /\ [][KmsNext]_vars

InitApi ==
    /\ LogInit /\ StatusInit /\ RunnerInit(DefaultOpts) /\ DialInit /\ EgressIdle
    /\ PolicyIdle /\ LaunchIdle
    /\ KmsIdle /\ ApiInit /\ FrameIdle

ApiNext ==
    \/ ApiServe /\ UNCHANGED exceptApi
    \/ ApiConnectionDropped /\ UNCHANGED exceptApi

SpecApi == InitApi /\ [][ApiNext]_vars

InitFrame ==
    /\ LogInit /\ StatusInit /\ RunnerInit(DefaultOpts) /\ DialInit /\ EgressIdle
    /\ PolicyIdle /\ LaunchIdle
    /\ KmsIdle /\ ApiIdle /\ FrameInit

FrameNext ==
    \/ FrameSend /\ UNCHANGED exceptFrame
    \/ FrameRecvLen /\ UNCHANGED exceptFrame
    \/ FrameRecvMsg /\ UNCHANGED exceptFrame

SpecFrame == InitFrame /\ [][FrameNext]_vars

(***************************************************************************)
(* Claims about the application log, checked under Spec.                   *)
(***************************************************************************)
ReadStep(r) == lastOp'.op = "read" /\ lastOp'.r = r
ZeroAppendStep == lastOp'.op = "append" /\ lastOp'.n = 0
WriteHead == head + CircBufLen(buffer)
StrictlyIncreasing(s) == \A i \in 1..(Len(s) - 1) : s[i] < s[i + 1]
Contiguous(s) == \A i \in 1..(Len(s) - 1) : s[i + 1] = s[i] + 1

\* C1: after appends of total length S (each at most the capacity C) the log
\* buffers min(S, C) bytes and head is max(0, S - C).
C1_BufferedAndHead ==
    /\ CircBufLen(buffer) = Min(total, Cap)
    /\ head = Max(0, total - Cap)

\* C1 witness: the log has overflowed more than once over
C1_Witness == lastOp.op = "append" /\ total > 2 * Cap /\ head = total - Cap

\* C2: a fresh cursor that reads until read returns 0, with no byte appended
\* in between, has obtained exactly the last min(N, C) bytes, in append order.
C2_RoundTrip ==
    \A r \in Readers :
        (pc[r] = "wait" /\ startTotal[r] = total)
            => out[r] = iota(Max(0, total - Cap), Min(total, Cap))

\* C2 witness: a cursor created after the log overflowed has read to the end
C2_Witness ==
    \E r \in Readers :
        /\ pc[r] = "wait" /\ startTotal[r] = total
        /\ total > Cap /\ Len(out[r]) = Cap

\* C3 as claimed: whatever the interleaving, the bytes a reader has received
\* are one contiguous run of the appended bytes ending at or before the write
\* head.
C3_ContiguousSuffix ==
    \A r \in Readers :
        /\ Contiguous(out[r])
        /\ \A i \in 1..Len(out[r]) : out[r][i] < WriteHead

\* C3 as amended: the bytes received are bytes of the appended stream in append
\* order without repetition, ending at cursor.pos (while its socket takes the
\* bytes), at or before the write head;
\* they are contiguous except where the reader lagged: the bytes missing from
\* the run are bytes the log had dropped (they lie below head).
C3_OrderedUpToDrops ==
    \A r \in Readers :
        /\ StrictlyIncreasing(out[r])
        /\ cursor[r] <= WriteHead
        /\ WriteHead = total
        /\ out[r] # <<>> => /\ pc[r] # "gone" => out[r][Len(out[r])] = cursor[r] - 1
                            /\ out[r][1] >= startTotal[r] - Cap
                            /\ out[r][1] <= head
        /\ \A i \in 1..(Len(out[r]) - 1) :
              out[r][i + 1] # out[r][i] + 1 => out[r][i + 1] <= head
        /\ (pc[r] # "gone" /\ Len(out[r]) = cursor[r]) => out[r] = iota(0, cursor[r])

\* C3 witness: a reader that lagged has a hole in what it received
C3_Witness ==
    \E r \in Readers : \E i \in 1..(Len(out[r]) - 1) :
        /\ out[r][i + 1] > out[r][i] + 1
        /\ cursor[r] = WriteHead

\* C4: a read with cursor.pos < head sets the cursor to head and returns bytes
\* from absolute index head on; every read returns consecutive indices from
\* max(cursor.pos, head), and no index is received twice.
C4_SnapNoDupNoGap ==
    /\ [](\A r \in Readers : StrictlyIncreasing(out[r]))
    /\ [][\A r \in Readers : ReadStep(r) =>
            LET start == IF cursor[r] < head THEN head ELSE cursor[r]
            IN /\ cursor'[r] = start + lastOp'.n
               /\ lastOp'.n <= MaxBuf
               /\ pc'[r] # "gone" => out'[r] = out[r] \o iota(start, lastOp'.n)
               /\ cursor[r] < head => lastOp'.n > 0]_vars

\* C4 witness: a read has just snapped a lagging cursor that had read before
C4_Witness ==
    \E r \in Readers :
        /\ lastOp = [op |-> "read", r |-> r, n |-> MaxBuf]
        /\ Len(out[r]) > MaxBuf
        /\ out[r][Len(out[r]) - MaxBuf + 1] = head
        /\ out[r][Len(out[r]) - MaxBuf] < head - 1

\* C5 as claimed: an append of no bytes changes neither the buffer nor head
\* and no receiver observes a change.
C5_ZeroAppendSilent ==
    [][ZeroAppendStep =>
        /\ buffer' = buffer
        /\ head' = head
        /\ changed' = changed]_vars

\* C5 as amended: an append of no bytes changes neither the buffer nor head,
\* but it notifies as every append does: closed senders are dropped and every
\* live receiver observes a change.
C5_ZeroAppendNotifies ==
    [][ZeroAppendStep =>
        /\ buffer' = buffer
        /\ head' = head
        /\ total' = total
        /\ watches' = WatchSetRetain(watches, ReceiverDropped)
        /\ \A r \in Readers :
              changed'[r] = (changed[r] \/ (pc[r] \in {"write_all", "wait"}))]_vars

\* C5 witness: a reader that had drained the log and was waiting has been
\* woken although no byte was appended since its cursor was created
C5_Witness ==
    \E r \in Readers :
        /\ lastOp = [op |-> "append", r |-> 0, n |-> 0]
        /\ pc[r] = "wait" /\ changed[r] /\ startTotal[r] = total

\* C6 as claimed: a read with cursor.pos = head returns zero bytes.
C6_AtHeadReadsZero ==
    [][\A r \in Readers : (ReadStep(r) /\ cursor[r] = head) => lastOp'.n = 0]_vars

\* C6 as amended: a read with cursor.pos at the write head (head plus the
\* buffered length, which is head only while the buffer is empty) returns zero
\* bytes and moves nothing, so it keeps returning zero until the next append:
\* only an append changes the buffer or head.
C6_AtWriteHeadReadsZero ==
    /\ [][\A r \in Readers : (ReadStep(r) /\ cursor[r] = WriteHead) =>
            /\ lastOp'.n = 0
            /\ cursor'[r] = cursor[r]
            /\ out'[r] = out[r]]_vars
    /\ [][(buffer' # buffer \/ head' # head) =>
            (lastOp'.op = "append" /\ lastOp'.n > 0)]_vars

\* C6 witness: a read at the write head of a non-empty log returned nothing
C6_Witness ==
    \E r \in Readers :
        /\ lastOp = [op |-> "read", r |-> r, n |-> 0]
        /\ cursor[r] = WriteHead /\ cursor[r] > head

(***************************************************************************)
(* Claims about the status cell, checked under SpecStatus and FairStatus.  *)
(***************************************************************************)
IsTerminal(st) == st.kind # "Running"
Quiescent(s) == spc[s] = "wait" /\ ~schanged[s]

\* C7: a subscriber whose stream started while the status was Running is
\* eventually written the terminal status line, and no non-terminal line is
\* written to a subscriber after a terminal one.
C7_TerminalNeverMissed ==
    /\ [](\A s \in Subscribers : \A i \in 1..Len(lines[s]) : \A j \in 1..Len(lines[s]) :
            (i < j /\ lines[s][i] # RunningLine) => lines[s][j] # RunningLine)
    /\ \A s \in Subscribers :
          (spc[s] # "idle" /\ regStatus[s] = Running /\ IsTerminal(status))
              ~> (/\ lines[s] # <<>>
                  /\ lines[s][Len(lines[s])] = as_json(status)
                  /\ lines[s][Len(lines[s])] # RunningLine)

\* C7 witness: a subscriber that had been written the running line has been
\* written the terminal line after it
C7_Witness ==
    \E s \in Subscribers :
        /\ regStatus[s] = Running /\ IsTerminal(status)
        /\ lines[s] = <<RunningLine, as_json(status)>>

\* C8: the first line written to a subscriber is the status the cell held when
\* the stream task read it, a value the cell held since the subscriber's
\* watcher was added; a subscriber that connects after the status became
\* terminal gets the terminal status as its first line.
C8_FirstLineCurrent ==
    \A s \in Subscribers :
        LET first == IF lines[s] # <<>> THEN lines[s][1] ELSE json_str[s]
        IN (lines[s] # <<>> \/ spc[s] = "write") =>
              /\ first \in {as_json(regStatus[s]), as_json(status)}
              /\ IsTerminal(regStatus[s]) => (first # RunningLine /\ first = as_json(status))
              /\ ~IsTerminal(status) => first = RunningLine

\* C8 witness: a subscriber that connected after the status became terminal
\* has been written its first line
C8_Witness ==
    \E s \in Subscribers :
        /\ IsTerminal(regStatus[s])
        /\ lines[s] = <<as_json(status)>>
        /\ status.kind = "Exited"

C10_MutatedExactlyOnce ==
    /\ mutations <= 1
    /\ mutations = 0 => status = Running
    /\ mutations = 1 => IsTerminal(status)
    /\ sup \in {"await", "failed"} => mutations = 1

(***************************************************************************)
(* Claims about the runner, checked under SpecRun and SpecReport.          *)
(***************************************************************************)
EntrypointStatuses ==
    {Running} \cup {Exited(es) : es \in ExitStatus} \cup {Fatal(e) : e \in Errors}

\* the status the supervisor wrote as line l
StatusOfLine(l) == CHOOSE st \in EntrypointStatuses : as_json(st) = l

\* the EnclaveExitStatus that corresponds to a terminal EntrypointStatus
Corresponding(st) ==
    CASE st.kind = "Fatal" -> FatalWith(st.err)
      [] st.kind = "Exited" /\ st.exit_status.kind = "Exited" ->
            ExitedWith(st.exit_status.code)
      [] st.kind = "Exited" /\ st.exit_status.kind = "Signaled" ->
            SignaledWith(SignalNumber(st.exit_status.sig))

TearingDown == rpc \in {"cleanup", "returned", "exited"}
Terminated == \E i \in 1..Len(tool) : tool[i] = "terminate-enclave"

\* C11 as claimed: once await_exit has taken the line of a terminal status
\* (exited, signaled or fatal) from the status port, it has returned the
\* corresponding EnclaveExitStatus and Enclave::run has gone on to its teardown.
C11_TerminalDecoded ==
    \A i \in 1..rd :
        LET st == StatusOfLine(lines[RunnerSub][i])
        IN IsTerminal(st) => exit_res = Corresponding(st) /\ TearingDown

\* C12: the runner's exit code is a function of the status Enclave::run
\* returned: Exited(c) gives c mod 256, Signaled 107, Fatal 108, Cancelled 109.
C12_ExitCodeOfStatus ==
    rpc = "exited" =>
        /\ run_res.kind = "Exited" =>
              \E k \in 0..255 : exit_code = <<k>> /\ run_res.code % 256 = k
        /\ run_res.kind = "Signaled" => exit_code = <<107>>
        /\ run_res.kind = "Fatal" => exit_code = <<108>>
        /\ run_res.kind = "Cancelled" => exit_code = <<109>>

\* C12 witness: a negative code has been reported
C12_Witness == rpc = "exited" /\ run_res = ExitedWith(-1) /\ exit_code = <<255>>

\* the helper tasks Enclave::run has spawned once it awaits the enclave's exit
SpawnedTasks ==
    (IF args.egress THEN 1 ELSE 0) + (IF args.debug_mode THEN 1 ELSE 0) + 1 + args.ingress

\* await_exit itself has returned what exit_res holds
AwaitExitCompleted ==
    \/ exit_res.kind = "Err" /\ failed_attempts >= 100
    \/ rd > 0 /\ exit_res = ParseStatusLine(lines[RunnerSub][rd])

\* C13 as claimed: a signal delivered while Enclave::run awaits the exit of the
\* running enclave, no terminal status received, ends in terminate_enclave
\* invoked, Cancelled returned and the runner exiting with 109.
C13_SignalCancels ==
    (rpc = "exited" /\ sig_at = "await") =>
        /\ Terminated
        /\ run_res = Cancelled
        /\ exit_code = <<109>>

\* C13 as amended: after such a signal the run is cancelled (terminate_enclave
\* invoked, Cancelled returned, exit code 109) unless await_exit returns
\* first, with a terminal status or its error; then that is the result and 109
\* is not promised. Either way the enclave is terminated before the return.
C13_SignalCancelsUnlessExitFirst ==
    (TearingDown /\ sig_at = "await") =>
        /\ exit_res = Cancelled \/ AwaitExitCompleted
        /\ exit_res = Cancelled => cancelled
        /\ rpc \in {"returned", "exited"} => Terminated /\ run_res = exit_res
        /\ (rpc = "exited" /\ exit_res = Cancelled) => exit_code = <<109>>
        /\ (rpc = "exited" /\ exit_res.kind = "Err") => exit_code = <<1>>

\* C13 witness: a run cancelled by a signal that came while it awaited the exit
C13_Witness ==
    /\ rpc = "exited" /\ sig_at = "await"
    /\ run_res = Cancelled /\ exit_code = <<109>>
    /\ Terminated

\* C14 as claimed: Enclave::run has invoked terminate_enclave whenever it
\* returns after run_enclave succeeded.
C14_TerminatedBeforeReturn ==
    (rpc \in {"returned", "exited"} /\ enclave_info = "Some") => Terminated

\* C15 as claimed: in a teardown every helper task is aborted, and the aborts
\* come before the enclave is terminated.
C15_AbortThenTerminate ==
    teardown # <<>> =>
        /\ tasks = <<>>
        /\ \A i \in 1..Len(teardown) :
              teardown[i] = "abort" => \A j \in 1..i : teardown[j] = "abort"

\* C15 as amended: cleanup first invokes terminate_enclave; when that
\* succeeded it then aborts every helper task, and when it failed it returns
\* at once and aborts none. The runner exits only after the cleanup.
C15_TerminateThenAbort ==
    /\ teardown # <<>> =>
          /\ teardown[1] = "terminate_enclave"
          /\ \A i \in 2..Len(teardown) : teardown[i] = "abort"
          /\ enclave = "terminated" =>
                tasks = <<>> /\ Len(teardown) = 1 + SpawnedTasks
          /\ enclave # "terminated" =>
                Len(tasks) = SpawnedTasks /\ teardown = <<"terminate_enclave">>
    /\ (rpc \in {"returned", "exited"} /\ exit_res # NoResult) => teardown # <<>>

\* C15 witness: a teardown that aborted three helper tasks
C15_Witness ==
    /\ rpc = "exited" /\ enclave = "terminated"
    /\ Len(teardown) >= 4 /\ teardown[4] = "abort"

\* C16: with cpu_count < 1 or memory_mb < 64 Enclave::run returns an error,
\* the external tool is never executed and enclave_info stays unset.
C16_InvalidArgsNeverRun ==
    (args.cpu_count < 1 \/ args.memory_mb < 64) =>
        /\ tool = <<>>
        /\ enclave_info = "None" /\ enclave = "none"
        /\ rpc \in {"run", "run_enclave", "returned", "exited"}
        /\ rpc \in {"returned", "exited"} => run_res.kind = "Err"

\* C16 witness: a run refused for its memory size alone
C16_Witness ==
    /\ args.cpu_count >= 1 /\ args.memory_mb < 64
    /\ rpc = "exited" /\ run_res = Err("to_args") /\ exit_code = <<1>>

\* C17 as claimed: when the status dial loop has given up, the final status is
\* Fatal and the runner exits with 108.
C17_DialFailureIsFatal ==
    (rpc = "exited" /\ exit_res = Err("status port")) =>
        run_res.kind = "Fatal" /\ exit_code = <<108>>

\* C17 as amended: the status dial loop gives up at its 100th failed attempt
\* and returns an error; Enclave::run then runs its cleanup (terminate_enclave)
\* and returns that error, which the runner reports as exit code 1.
C17_DialFailureIsError ==
    /\ failed_attempts <= 100
    /\ failed_attempts = 100 => exit_res = Err("status port") /\ TearingDown
    /\ exit_res = Err("status port") => failed_attempts = 100
    /\ (rpc \in {"returned", "exited"} /\ exit_res = Err("status port")) =>
          Terminated /\ run_res = exit_res
    /\ (rpc = "exited" /\ exit_res = Err("status port")) => exit_code = <<1>>

\* C17 witness: every attempt failed, and the runner has exited
C17_Witness ==
    /\ rpc = "exited" /\ exit_res = Err("status port")
    /\ spc[RunnerSub] = "idle" /\ failed_attempts = 100
    /\ exit_code = <<1>>

(***************************************************************************)
(* Claims about the log stream task, checked under SpecLogDial.            *)
(***************************************************************************)
\* the select! of Enclave::run completes with what await_exit returned
AwaitExitReturned == rpc = "await" /\ rpc' = "cleanup" /\ exit_res' # Cancelled

\* C40: await_exit keeps waiting when a status connection closes, or delivers
\* a line that is unparsable or not terminal; its counter of failed attempts
\* is never reset, by a successful connection or otherwise; it returns the
\* error exactly at the step that brings the counter to the limit of 100, and
\* returns otherwise only a terminal status it has read.
C40_CumulativeFailedAttempts ==
    [][/\ failed_attempts' >= failed_attempts
       /\ failed_attempts' <= failed_attempts + 1
       /\ (rpc = "await" /\ conn /\ ~conn') => rpc' = "await" /\ exit_res' = exit_res
       /\ (rpc = "await" /\ rd' = rd + 1
              /\ ParseStatusLine(lines[RunnerSub][rd + 1]).kind
                     \notin {"Exited", "Signaled", "Fatal"}) =>
             rpc' = "await" /\ exit_res' = exit_res
       /\ AwaitExitReturned =>
             IF failed_attempts' # failed_attempts
             THEN /\ failed_attempts' = STATUS_VSOCK_RETRY_LIMIT
                  /\ exit_res' = Err("status port")
             ELSE /\ exit_res'.kind \in {"Exited", "Signaled", "Fatal"}
                  /\ rd' = rd + 1
                  /\ exit_res' = ParseStatusLine(lines[RunnerSub][rd + 1])
       /\ (failed_attempts' = STATUS_VSOCK_RETRY_LIMIT
              /\ failed_attempts # STATUS_VSOCK_RETRY_LIMIT) => AwaitExitReturned
      ]_vars

\* await_exit has given up after a connection that delivered a line without
\* a terminal status and was closed
C40_Witness ==
    /\ exit_res = Err("status port")
    /\ failed_attempts = STATUS_VSOCK_RETRY_LIMIT
    /\ rd > 0 /\ ~conn
    /\ sup = "failed"

Dialing == log_pc \in {"dial", "sleep"}

ResponseFrames == {i \in 1..Len(h2e) : h2e[i].frame = "ConnectResponse"}

\* C19: for a ConnectRequest the host side has received it makes exactly one
\* send of a ConnectResponse; no spliced byte is written to the stream before
\* the response, and none at all after an Err response.
C19_OneResponseBeforeSplice ==
    /\ sends <= 1 /\ Cardinality(ResponseFrames) <= sends
    /\ conn_req = NoHost => sends = 0
    /\ hpc \in {"splice", "done", "send_err"} => conn_req # NoHost /\ sends = 1
    /\ hpc \in {"splice", "done"} => ResponseFrames = {1}
    /\ hpc = "send_err" => h2e = <<>>
    /\ RawCount(h2e) > 0 => h2e[1] = ConnectResponseOk
    /\ (h2e # <<>> /\ h2e[1] = ConnectResponseErr) =>
          /\ h2e = <<ConnectResponseErr>>
          /\ hpc = "done"
          /\ hrd = 1

\* C19 witness: bytes were spliced both ways after an Ok response
C19_Witness ==
    /\ hpc = "done" /\ sends = 1
    /\ h2e = <<ConnectResponseOk, RawByte>>
    /\ hrd = 2

\* the request names a host that the allow list of its kind does not match,
\* or that the deny list of its kind matches
HostBlocked ==
    /\ request.host # NoHost
    /\ IF request.host.kind = "domain"
       THEN \/ ~DomainFilterMatches(policy.domain_allow, request.host.labels)
            \/ DomainFilterMatches(policy.domain_deny, request.host.labels)
       ELSE \/ ~IpFilterMatches(policy.ip_allow, IpAddr(request.host))
            \/ IpFilterMatches(policy.ip_deny, IpAddr(request.host))

\* C20 as claimed: a request whose host the policy does not allow is answered
\* 401 "blocked by egress security policy", with no connection opened to the
\* host's egress port and no ConnectRequest sent.
C20_BlockedGets401 ==
    (HostBlocked /\ ppc # "request") =>
        /\ response = err_resp(401, "blocked by egress security policy")
        /\ vsock_opened = 0 /\ e2h = <<>>

\* C20 as amended: for such a request no connection is opened and no
\* ConnectRequest is sent; the answer is 401 "blocked by egress security
\* policy", except for a CONNECT whose address has no port, which is answered
\* 400 before the policy is consulted.
C20_BlockedNeverDials ==
    (HostBlocked /\ ppc # "request") =>
        /\ ppc = "responded"
        /\ vsock_opened = 0 /\ e2h = <<>> /\ hpc = "idle"
        /\ response =
              IF request.method = "CONNECT" /\ request.port = NoPort
              THEN err_resp(400, "CONNECT address is missing a port")
              ELSE err_resp(401, "blocked by egress security policy")

\* C20 witness: a CONNECT to a host on the deny list has been answered 401
C20_Witness ==
    /\ request.method = "CONNECT" /\ request.port # NoPort
    /\ request.host = DomainHost(<<"bad", "example", "com">>)
    /\ DomainFilterMatches(policy.domain_allow, request.host.labels)
    /\ response.status = 401 /\ vsock_opened = 0

(***************************************************************************)
(* C21                                                                     *)
(***************************************************************************)
\* the request went on to remote_connect: it names a host the policy allows
\* and, for CONNECT, a port
PassedOn ==
    /\ request.host # NoHost
    /\ ~HostBlocked
    /\ request.method = "CONNECT" => request.port # NoPort

\* the enclave side has received the host side's answer
ReceivedOk == erd >= 1 /\ h2e[1] = ConnectResponseOk
ReceivedErr == erd >= 1 /\ h2e[1] = ConnectResponseErr

\* C21: for an allowed host, the proxy in the enclave answers 200 to a CONNECT
\* only after it has received ConnectResponse::Ok from the host side; when the
\* host side answered ConnectResponse::Err, or the vsock dial or the control
\* exchange failed, the client gets 503, for CONNECT and for any other method.
C21_OkThen200ElseUnavailable ==
    /\ response.status = 200 => request.method = "CONNECT" /\ PassedOn /\ ReceivedOk
    /\ ReceivedErr => response.status = 503
    /\ PassedOn /\ ppc = "responded" => response.status = 503
    /\ PassedOn /\ request.method = "CONNECT" /\ ReceivedOk => response = established

\* the host side answered Err to a request other than CONNECT, and the client
\* got 503
C21_Witness ==
    /\ request.method = "GET" /\ PassedOn
    /\ ReceivedErr
    /\ ppc = "responded" /\ response.status = 503

(***************************************************************************)
(* Claims about the egress policy, checked under SpecPolicy and            *)
(* SpecPattern.                                                            *)
(***************************************************************************)
\* the asked host without its brackets, and whether that is an IP address
AskedText == IF asked.kind = "bracketed" THEN asked.inner ELSE asked
AskedIsIp == AskedText.kind \in {"ip4", "ip6"}
AskedAddr == [v |-> AskedText.kind, addr |-> AskedText.addr]

\* what the allow filters and the deny filters of the built policy say about
\* the asked host: the IP filters for an IP address, the domain filters else
AllowMatches ==
    IF AskedIsIp
    THEN IpFilterMatches(built.ip_allow, AskedAddr)
    ELSE DomainFilterMatches(built.domain_allow, AskedText.labels)
DenyMatches ==
    IF AskedIsIp
    THEN IpFilterMatches(built.ip_deny, AskedAddr)
    ELSE DomainFilterMatches(built.domain_deny, AskedText.labels)

\* C22: is_host_allowed(h) is allow.matches(h) and not deny.matches(h), with
\* the IP filters when h without its brackets parses as an IP address and the
\* domain filters otherwise; a matching deny pattern overrides a matching
\* allow pattern.
C22_AllowAndNotDeny ==
    pol_pc = "asked" =>
        /\ allowed = (AllowMatches /\ ~DenyMatches)
        /\ DenyMatches => ~allowed

\* an IPv6 literal between brackets that an allow entry and a deny entry both
\* match has been refused
C22_Witness ==
    /\ pol_pc = "asked"
    /\ asked = Bracketed(Ip6Host(1))
    /\ AllowMatches /\ DenyMatches
    /\ ~allowed

\* a part of a pattern that is a name, and equality of labels up to ASCII case
Named(part) == part \notin {"*", "**"}
SameLabel(a, b) == to_ascii_lowercase(a) = to_ascii_lowercase(b)

\* a part other than ** against one label
PartMatches(part, label) == part = "*" \/ (Named(part) /\ SameLabel(part, label))

\* the matching the claim describes, for a pattern whose only ** is leading
ClaimedMatch(pat, dom) ==
    IF pat[1] = "**"
    THEN /\ Len(dom) >= Len(pat)
         /\ \A i \in 2..Len(pat) : PartMatches(pat[i], dom[Len(dom) - Len(pat) + i])
    ELSE /\ Len(dom) = Len(pat)
         /\ \A i \in 1..Len(pat) : PartMatches(pat[i], dom[i])

\* C23: labels are compared right to left, ASCII case-insensitively; a named
\* label matches only an equal label, * matches exactly one label, a leading
\* ** matches one or more leading labels, and a pattern without ** matches
\* only domains with as many labels as it has.
C23_PatternMatching ==
    pol_pc = "matched" =>
        /\ (\A i \in 2..Len(pat_in) : pat_in[i] # "**") =>
              (matched <=> ClaimedMatch(pat_in, dom_in))
        /\ matched =>
              /\ \A i \in 1..Len(pat_in) :
                    Named(pat_in[i]) =>
                        \E j \in 1..Len(dom_in) : SameLabel(pat_in[i], dom_in[j])
              /\ Len(dom_in) >= Len(pat_in)

\* there is a ** to the right of the i-th label of the pattern
SuperwildRightOf(pat, i) == \E m \in (i + 1)..Len(pat) : pat[m] = "**"

\* C39: a domain pattern matches a domain only if every named label of the
\* pattern equals, up to ASCII case, the label at the same position from the
\* right in the domain; a named label to the left of a ** must be matched
\* too, by a label of the domain at least as far from the right.
C39_NamedLabelsMatched ==
    (pol_pc = "matched" /\ matched) =>
        \A i \in 1..Len(pat_in) :
            Named(pat_in[i]) =>
                LET k == Len(pat_in) - i
                IN IF SuperwildRightOf(pat_in, i)
                   THEN \E j \in 1..Len(dom_in) :
                            /\ Len(dom_in) - j >= k
                            /\ SameLabel(pat_in[i], dom_in[j])
                   ELSE /\ Len(dom_in) > k
                        /\ SameLabel(pat_in[i], dom_in[Len(dom_in) - k])

\* an egress list that is empty or absent
EmptyOrAbsent(opt_spec) == ~opt_spec.some \/ opt_spec.list = <<>>

\* C24: a policy built from an empty or absent allow list allows no host,
\* domain or IP literal; an empty or absent deny list matches nothing, so the
\* decision is that of the allow list alone.
C24_EmptyLists ==
    pol_pc = "asked" =>
        /\ EmptyOrAbsent(egress_spec.allow) => ~allowed
        /\ EmptyOrAbsent(egress_spec.deny) => ~DenyMatches /\ allowed = AllowMatches

\* a policy built from an absent allow list and an empty deny list has
\* refused an IP literal
C24_Witness ==
    /\ pol_pc = "asked"
    /\ egress_spec.allow = None /\ egress_spec.deny = Some(<<>>)
    /\ asked = Ip4Host(1)
    /\ ~allowed

(***************************************************************************)
(* Claims about the supervisor's launch, the reaper and the ingress        *)
(* bridge, checked under SpecLaunch and FairLaunch.                        *)
(***************************************************************************)
Has(e) == \E i \in 1..Len(events) : events[i] = e

\* what launch() does before it spawns the child
LaunchSteps ==
    {"config", "bootstrap", "egress.start", "ingress.start", "kms.start", "api.start",
     "spawn"}

\* run() is done with a failure of the start: main is about to exit, or
\* run() has recorded what launch() returned
FailureHandled == sup = "failed" \/ lpc = "done"

\* C25: the status and log services are started before the configuration is
\* loaded, before bootstrap and before every other service, and every failure
\* of the start before the child is spawned (stdio redirect, manifest load,
\* bootstrap, a service failing to start) sets the status cell to Fatal.
C25_FatalOnInitFailure ==
    /\ (\E i \in 1..Len(events) : events[i] \in LaunchSteps) =>
          /\ events[1] = "status"
          /\ ~conf.no_console => events[2] = "log"
    /\ (failure \in {"redirect", "config", "bootstrap", "egress", "ingress", "kms", "api"}
            /\ FailureHandled) =>
          status.kind = "Fatal"

\* the starts and stops of the four services, the spawn and the child's exit
IsServiceEvent(e) ==
    e \in {"egress.start", "ingress.start", "kms.start", "api.start", "spawn", "child.exit",
           "api.stop", "kms.stop", "ingress.stop", "ingress.stopped", "egress.stop"}
ServiceOrder ==
    <<"egress.start", "ingress.start", "kms.start", "api.start", "spawn", "child.exit",
      "api.stop", "kms.stop", "ingress.stop", "ingress.stopped", "egress.stop">>

\* C26: the services are started in the order egress, ingress, KMS proxy,
\* attestation API, all before the child is spawned; after the child's exit
\* they are stopped in the reverse order, each stop complete before the next
\* begins.
C26_StartAndStopOrder ==
    /\ LET done == SelectSeq(events, IsServiceEvent)
       IN done = SubSeq(ServiceOrder, 1, Len(done))
    /\ Has("egress.stop") => ing_pc \in {"off", "done"}
    /\ Has("ingress.stopped") => \A c \in Conns : conns[c] # "spliced"

\* launch() has returned the child's status with every service on, after the
\* ingress bridge has had a connection
C26_Witness ==
    /\ lpc = "ok"
    /\ is_enabled(conf) /\ conf.listeners = 1 /\ conf.kms_proxy # NoPort /\ conf.api # NoPort
    /\ ing_pc = "done" /\ \E c \in Conns : conns[c] = "done"

\* C27: whenever the sentinel child exits or is killed by a signal, the
\* supervisor eventually records Exited{code} or Signaled{signal} in the
\* status cell, whatever the connections of the ingress bridge are doing.
C27_ExitEventuallyRecorded ==
    (rres.kind = "Ok") ~> (status.kind = "Exited")

\* waitpid has reported the end of the sentinel
SentinelReported ==
    /\ nwaits > 0
    /\ last_wait.ws \in {"Exited", "Signaled"}
    /\ last_wait.pid = Sentinel

\* the launcher::ExitStatus of the last report
ReportedStatus ==
    IF last_wait.ws = "Exited"
    THEN [kind |-> "Exited", code |-> last_wait.code]
    ELSE [kind |-> "Signaled", sig |-> last_wait.sig]

\* C28 as claimed: the reaper returns only when waitpid reports Exited or
\* Signaled for the sentinel pid, and then returns that exit code or signal;
\* every other report is consumed and the loop goes on.
C28_ReturnsOnlyForSentinel ==
    /\ rres.kind # "pending" => SentinelReported /\ rres = ReapOk(ReportedStatus)
    /\ (nwaits > 0 /\ ~SentinelReported) => rres.kind = "pending"

\* C28: the reaper returns a status only when waitpid reports Exited or
\* Signaled for the sentinel pid, and that status is the sentinel's; it
\* returns an error, and no status, when waitpid itself fails; every other
\* report is consumed and the loop goes on.
C28_StatusOnlyForSentinel ==
    /\ rres.kind = "Ok" => SentinelReported /\ rres = ReapOk(ReportedStatus)
    /\ rres.kind = "Err" <=> (nwaits > 0 /\ last_wait.ws = "Err")
    /\ (nwaits > 0 /\ ~SentinelReported /\ last_wait.ws # "Err") =>
          rres.kind = "pending" /\ lpc = "reap"

\* reports about another process were consumed before the sentinel's signal
\* was returned
C28_Witness ==
    /\ nwaits > MaxWaits
    /\ rres.kind = "Ok" /\ rres.exit_status.kind = "Signaled"

\* the egress section makes the supervisor start the proxy
EgressOn == conf.egress.present /\ conf.egress.allow.some /\ Len(conf.egress.allow.list) > 0

\* the address of the proxy
ProxyUrl ==
    IF conf.egress.proxy_port = NoPort
    THEN "http://127.0.0.1:9000"
    ELSE "http://127.0.0.1:" \o ToString(conf.egress.proxy_port)

\* C29: with egress enabled, when the child is spawned the supervisor has set
\* http_proxy, https_proxy, HTTP_PROXY and HTTPS_PROXY to the address of the
\* proxy and no_proxy and NO_PROXY to localhost,127.0.0.1; with egress not
\* enabled it has set none of them.
C29_ProxyEnvironment ==
    Has("spawn") =>
        IF EgressOn
        THEN /\ \A n \in {"http_proxy", "https_proxy", "HTTP_PROXY", "HTTPS_PROXY"} :
                  env[n] = ProxyUrl
             /\ env["no_proxy"] = "localhost,127.0.0.1"
             /\ env["NO_PROXY"] = "localhost,127.0.0.1"
        ELSE \A n \in {"http_proxy", "https_proxy", "HTTP_PROXY", "HTTPS_PROXY",
                       "no_proxy", "NO_PROXY"} : env[n] = Unset

\* C30: when shut down, the bridge on the host finishes only after the
\* connections it splices have finished, and the bridge in the enclave does
\* not wait for the connections it splices: they are aborted when it ends.
C30_IngressShutdown ==
    /\ hserve = "aborted" => \A c \in Conns : hconns[c] # "spliced"
    /\ ing_pc \in {"joining", "done"} => \A c \in Conns : conns[c] # "spliced"

(***************************************************************************)
(* Claims about the KMS proxy, the attestation API and the framed          *)
(* messages, checked under SpecKms, SpecApi and SpecFrame.                 *)
(***************************************************************************)
\* the actions that are to be attested
AttestedActions ==
    {"TrentService.Decrypt", "TrentService.GenerateDataKey",
     "TrentService.GenerateDataKeyPair", "TrentService.GenerateRandom",
     "TrentService.DeriveSharedSecret"}

\* C31: the KMS proxy takes the attesting path for a request exactly when the
\* method is POST, the path is / and X-Amz-Target is one of Decrypt,
\* GenerateDataKey, GenerateDataKeyPair, GenerateRandom and DeriveSharedSecret
\* of TrentService; every other request takes the forwarding path.
C31_AttestingExactlyWhen ==
    kms_pc # "recv" =>
        IF kms_req.method = "POST" /\ kms_req.path = "/" /\ kms_req.target \in AttestedActions
        THEN kms_pc \in {"attesting", "attested"}
        ELSE kms_pc \in {"forwarding", "forwarded"}

\* C32: the attestation API answers 404 to a request for another path than
\* /v1/attestation, 405 to a method other than POST on /v1/attestation, 400 to
\* a POST whose body or fields cannot be parsed, 500 to a POST for which the
\* attestation provider fails, and 200 with the provider's bytes otherwise.
C32_ApiOutcomes ==
    api_pc # "recv" =>
        CASE api_req.path # "/v1/attestation" -> api_resp.status = 404
          [] api_req.method # "POST" -> api_resp.status = 405
          [] \E f \in {"nonce", "public_key", "user_data"} :
                api_req.body[f] \in {"mistyped", "undecodable"} -> api_resp.status = 400
          [] ~api_req.body.json -> api_resp.status = 400
          [] api_provided = "Err" -> api_resp.status = 500
          [] OTHER -> api_resp = [status |-> 200, body |-> api_provided]

\* C38: recv applied to the bytes written by send(m) returns a message equal
\* to m and consumes exactly those bytes, the 2 byte little-endian prefix
\* being the length of the JSON; for every length of the JSON, the ones above
\* 65535 included.
C38_FrameRoundTrip ==
    /\ frame_pc # "new" =>
          wire.len_buf[1] + 256 * wire.len_buf[2] = JsonLen(frame_msg)
    /\ frame_pc = "received" =>
          /\ received = [kind |-> "Ok", msg |-> frame_msg]
          /\ consumed = 2 + JsonLen(frame_msg)

(***************************************************************************)
(* Claims about append, read and the delivery of the log, checked under    *)
(* Spec, FairLog and SpecAppend.                                           *)
(***************************************************************************)
Connected(r) == pc[r] \in {"write_all", "wait"}

\* the subscriber has been written everything up to the last byte appended
Delivered(r) ==
    /\ cursor[r] = total
    /\ total > 0 => out[r] # <<>> /\ out[r][Len(out[r])] = total - 1

\* C34: for a connected log subscriber whose socket accepts writes, after any
\* append the stream task is eventually woken and writes every byte still
\* buffered past its cursor; no wakeup is lost: a task that waits with no
\* change pending has nothing left to write.
C34_EventualDelivery ==
    \A r \in Readers :
        /\ []((pc[r] = "wait" /\ ~changed[r]) => cursor[r] = head + CircBufLen(buffer))
        /\ [](Connected(r) => <>(pc[r] = "gone" \/ (pc[r] = "wait" /\ Delivered(r))))

\* a subscriber that waited was woken by appends that overflowed the log and
\* has written the last byte
C34_Witness ==
    \E r \in Readers :
        /\ pc[r] = "wait" /\ ~changed[r]
        /\ Delivered(r)
        /\ startTotal[r] < total /\ head > 0
        /\ lastOp.op = "read"

\* C35: append never decreases head; when the free space is smaller than
\* len(data), head advances by exactly len(data) - free and append returns
\* that amount; otherwise head is unchanged and append returns 0; so append
\* returns 0 while the total appended does not exceed the capacity.
C35_AppendMovesHead ==
    [][lastOp'.op = "append" =>
          LET free == Cap - CircBufLen(buffer)
              len == lastOp'.n
          IN /\ head' >= head
             /\ IF free < len
                THEN head' = head + (len - free) /\ call'.ret = len - free
                ELSE head' = head /\ call'.ret = 0
             /\ total' <= Cap => call'.ret = 0
      ]_vars

\* an append into a log that had free space, but not enough, dropped a part
\* of what was buffered
C35_Witness ==
    /\ lastOp.op = "append"
    /\ call.ret > 0 /\ call.ret < call.len
    /\ head = call.ret /\ total > Cap

\* C36: after every read, head <= cursor.pos <= head + buffered length; the
\* cursor never moves back; read returns at most len(buf) bytes and changes
\* neither head, nor the buffer, nor the watcher set.
C36_CursorInvariant ==
    [][\A r \in Readers :
          (lastOp'.op = "read" /\ lastOp'.r = r) =>
              /\ head' <= cursor'[r]
              /\ cursor'[r] <= head' + CircBufLen(buffer')
              /\ cursor'[r] >= cursor[r]
              /\ call'.ret <= call'.len
              /\ head' = head /\ buffer' = buffer /\ watches' = watches
      ]_vars

\* a read into a short buffer by a cursor that had fallen behind head left
\* bytes unread
C36_Witness ==
    \E r \in Readers :
        /\ lastOp = [op |-> "read", r |-> r, n |-> 1]
        /\ call = [len |-> 1, ret |-> 1]
        /\ cursor[r] = head + 1
        /\ head > 0 /\ cursor[r] < total

\* C37: both assertions of append hold in every reachable state of the log
\* for every append of at most capacity bytes; an append of more than
\* capacity bytes fails the first assertion.
C37_AppendAssertions ==
    /\ lastOp.op = "panic" => lastOp.n > Cap /\ lastOp.r = 1
    /\ lastOp.op = "append" => lastOp.n <= Cap

\* the log was filled by appends that went through, and an append of more
\* than capacity bytes has then trimmed it and panicked at the first assertion
C37_Witness ==
    /\ lastOp = [op |-> "panic", r |-> 1, n |-> Cap + 1]
    /\ total >= Cap
    /\ head > 0


(***************************************************************************)
(* Claims about subscribers that hang up                                   *)
(***************************************************************************)
\* the stream task of status subscriber s has written to the closed
\* connection and waits for the next change
WriteFailed(s) ==
    /\ sconn[s] = "closed"
    /\ spc[s] = "wait"
    /\ lines[s] = <<>> \/ lines[s][Len(lines[s])] # json_str[s]

\* the log's half of C33: right after an append no watcher of a subscriber
\* whose stream task has ended on a failed write is left in the log's set
LogDeadWatchersRemoved ==
    lastOp.op = "append" =>
        \A r \in Readers : pc[r] = "gone" => r \notin WatchSetSendTo(watches)

\* the status channel's half of C33: a notify that comes after the stream
\* task has met the closed connection removes the subscriber's watcher
StatusDeadWatchersRemoved ==
    mutations' # mutations =>
        \A s \in Subscribers : WriteFailed(s) => s \notin WatchSetSendTo(swatches')

\* C33: for the log and for the status channel, once a subscriber's
\* connection has gone away a later notify removes its watcher from the set.
C33_DeadWatchersRemoved ==
    /\ []LogDeadWatchersRemoved
    /\ [][StatusDeadWatchersRemoved]_vars

====
